---- MODULE Spec2Model ----
(***************************************************************************)
(* A model of rs-lox, a tree-walking interpreter for Lox written in Rust.  *)
(*                                                                         *)
(* The module holds seven state machines over one set of variables:        *)
(*   Spec             main.rs `run` after parsing: Resolver::resolve over  *)
(*                    the statements of a program, then                    *)
(*                    Interpreter::interpret;                              *)
(*   SpecParser       Parser::parse over a token sequence ending with EOF; *)
(*   SpecBinary       Interpreter::visit_binary_expr / visit_unary_expr    *)
(*                    applied to literal operands;                         *)
(*   SpecScanner      Scanner::scan_tokens over a source text;             *)
(*   SpecInstance     LoxInstance::get / set and LoxClass::find_method on  *)
(*                    an instance of a chain of classes;                   *)
(*   SpecEnvironment  Environment::define / get / assign called directly   *)
(*                    on a chain of environments;                          *)
(*   SpecResolver     Resolver::resolve over programs with classes.        *)
(* The recursive visitors of the source are RECURSIVE operators here; one  *)
(* action is one iteration of the loop that drives them in the source.     *)
(***************************************************************************)
EXTENDS Integers, Sequences, FiniteSets, TLC

VARIABLES
    program,    \* the statements handed to the resolver and the interpreter
    pc,         \* position of main.rs `run` / of the machine in use
    resolver,   \* the fields of Resolver, plus the locals it hands over
    interp,     \* the fields of Interpreter, the environments and a log
    parser,     \* the fields of Parser and the tokens it reads
    bin,        \* operands, operator and result of one visit_*_expr call
    scanner,    \* the fields of Scanner and the outcome of scan_tokens
    inst,       \* a LoxInstance, the classes of its chain and its last get
    envs        \* environments under direct calls of define, get and assign

vars == <<program, pc, resolver, interp, parser, bin, scanner, inst, envs>>

(***************************************************************************)
(* Bounds of the model.                                                    *)
(***************************************************************************)
\* number of statements drawn from the statement pool to form a program
MaxStmts == 2
\* iterations one while statement may run before the model gives up on it
MaxIter == 3
\* number of token phrases concatenated to form a parser input
MaxChunks == 2

(***************************************************************************)
(* Object (object.rs).  f64 is modelled by reduced fractions n/d with      *)
(* d > 0, extended by 1/0 (inf), -1/0 (-inf) and 0/0 (NaN); rounding and   *)
(* the sign of zero are not modelled.  A String is its sequence of         *)
(* character codes.                                                        *)
(***************************************************************************)
Abs(x) == IF x < 0 THEN -x ELSE x

Sign(x) == IF x < 0 THEN -1 ELSE IF x > 0 THEN 1 ELSE 0

RECURSIVE Gcd(_, _)
Gcd(a, b) == IF b = 0 THEN a ELSE Gcd(b, a % b)

\* the f64 with value n/d (d >= 0)
F64(n, d) ==
    IF d = 0 THEN [n |-> Sign(n), d |-> 0]
    ELSE LET g == Gcd(Abs(n), d) IN [n |-> n \div g, d |-> d \div g]

IsNaN(x) == x.n = 0 /\ x.d = 0

F64Add(a, b) ==
    IF a.d = 0 /\ b.d = 0
    THEN IF a.n = b.n THEN a ELSE F64(0, 0)
    ELSE F64(a.n * b.d + b.n * a.d, a.d * b.d)

F64Neg(a) == [n |-> -a.n, d |-> a.d]

F64Sub(a, b) == F64Add(a, F64Neg(b))

F64Mul(a, b) == F64(a.n * b.n, a.d * b.d)

\* IEEE 754 division: x/0 is inf, -inf or NaN, never a trap
F64Div(a, b) ==
    LET s == IF b.n < 0 THEN -1 ELSE 1
    IN  F64(s * a.n * b.d, s * a.d * b.n)

F64Eq(a, b) == ~IsNaN(a) /\ ~IsNaN(b) /\ a = b

F64Lt(a, b) ==
    /\ ~IsNaN(a)
    /\ ~IsNaN(b)
    /\ IF a.d = 0 /\ b.d = 0 THEN a.n < b.n ELSE a.n * b.d < b.n * a.d

F64Le(a, b) == F64Lt(a, b) \/ F64Eq(a, b)

Num(n) == [t |-> "Num", f |-> F64(n, 1)]

NumF(x) == [t |-> "Num", f |-> x]

Str(s) == [t |-> "Str", s |-> s]

Bool(b) == [t |-> "Bool", b |-> b]

Nil == [t |-> "Nil"]

ArithmeticError == [t |-> "ArithmeticError"]

\* impl PartialEq for Object
ObjectEq(a, b) ==
    CASE a.t = "Num" /\ b.t = "Num" -> F64Eq(a.f, b.f)
      [] a.t = "Str" /\ b.t = "Str" -> a.s = b.s
      [] a.t = "Bool" /\ b.t = "Bool" -> a.b = b.b
      [] a.t = "Nil" /\ b.t = "Nil" -> TRUE
      [] OTHER -> FALSE

\* String's Ord: lexicographic on the character codes
RECURSIVE StrLt(_, _)
StrLt(a, b) ==
    IF b = <<>> THEN FALSE
    ELSE IF a = <<>> THEN TRUE
    ELSE IF Head(a) # Head(b) THEN Head(a) < Head(b)
    ELSE StrLt(Tail(a), Tail(b))

\* the decimal digits of a natural number, as character codes
RECURSIVE Digits(_)
Digits(n) == IF n < 10 THEN <<48 + n>> ELSE Digits(n \div 10) \o <<48 + (n % 10)>>

\* the digits after the decimal point of r/d (r < d), at most k of them
RECURSIVE Fraction(_, _, _)
Fraction(r, d, k) ==
    IF r = 0 \/ k = 0 THEN <<>>
    ELSE <<48 + ((r * 10) \div d)>> \o Fraction((r * 10) % d, d, k - 1)

\* fractional digits f64's Display prints at most
FractionDigits == 16

\* f64's Display: "inf", "-inf", "NaN", "2", "-0.5"
F64Display(x) ==
    IF x.d = 0
    THEN (IF x.n = 0 THEN <<78, 97, 78>>
          ELSE IF x.n > 0 THEN <<105, 110, 102>> ELSE <<45, 105, 110, 102>>)
    ELSE LET m == Abs(x.n)
             frac == Fraction(m % x.d, x.d, FractionDigits)
         IN  (IF x.n < 0 THEN <<45>> ELSE <<>>)
             \o Digits(m \div x.d)
             \o (IF frac = <<>> THEN <<>> ELSE <<46>> \o frac)

(***************************************************************************)
(* Results: Ok(value) or one of the variants of LoxResult (error.rs).      *)
(***************************************************************************)
Ok(v) == [r |-> "Ok", v |-> v]

Err(kind, msg) == [r |-> kind, v |-> Nil, msg |-> msg]

\* Interpreter::is_truthy
is_truthy(right) == ~(right.t = "Nil" \/ (right.t = "Bool" /\ ~right.b))

\* the final `if result == Object::ArithmeticError` of visit_binary_expr
binary_check(result) ==
    IF ObjectEq(result, ArithmeticError)
    THEN Err("RuntimeError", "Illegal expression")
    ELSE Ok(result)

\* the last arm of visit_binary_expr taking operands of different types for
\* unequal instead of refusing them
mismatched_operands_unequal(left, op, right) ==
    IF op \in {"Equal", "BangEqual"} THEN Ok(Bool(op = "BangEqual"))
    ELSE Err("Error", "Both operands of the comparison expression must be of the same type")

\* Interpreter::visit_binary_expr, the last arm of its match: every pair of
\* operands no other arm takes
mismatched_operands(left, op, right) ==
    Err("Error", "Both operands of the comparison expression must be of the same type")

\* Interpreter::visit_binary_expr on evaluated operands
visit_binary_expr(left, op, right) ==
    CASE left.t = "Num" /\ right.t = "Num" ->
           (CASE op = "Plus" -> binary_check(NumF(F64Add(left.f, right.f)))
              [] op = "Minus" -> binary_check(NumF(F64Sub(left.f, right.f)))
              [] op = "Slash" -> binary_check(NumF(F64Div(left.f, right.f)))
              [] op = "Star" -> binary_check(NumF(F64Mul(left.f, right.f)))
              [] op = "Greater" -> binary_check(Bool(F64Lt(right.f, left.f)))
              [] op = "GreaterEqual" -> binary_check(Bool(F64Le(right.f, left.f)))
              [] op = "Less" -> binary_check(Bool(F64Lt(left.f, right.f)))
              [] op = "LessEqual" -> binary_check(Bool(F64Le(left.f, right.f)))
              [] op = "Equal" -> binary_check(Bool(F64Eq(left.f, right.f)))
              [] op = "BangEqual" -> binary_check(Bool(~F64Eq(left.f, right.f)))
              [] OTHER -> Err("Error", "Unreachable according to num binary expression"))
      [] left.t = "Str" /\ right.t = "Str" ->
           (CASE op = "Plus" -> binary_check(Str(left.s \o right.s))
              [] op = "Greater" -> binary_check(Bool(StrLt(right.s, left.s)))
              [] op = "GreaterEqual" -> binary_check(Bool(~StrLt(left.s, right.s)))
              [] op = "Less" -> binary_check(Bool(StrLt(left.s, right.s)))
              [] op = "LessEqual" -> binary_check(Bool(~StrLt(right.s, left.s)))
              [] op = "Equal" -> binary_check(Bool(left.s = right.s))
              [] op = "BangEqual" -> binary_check(Bool(left.s # right.s))
              [] OTHER -> Err("Error", "Unreachable according to string binary expression"))
      [] left.t = "Str" /\ right.t = "Num" ->
           (CASE op = "Plus" -> binary_check(Str(left.s \o F64Display(right.f)))
              [] OTHER -> Err("Error", "Unreachable according to num and string binary expression"))
      [] left.t = "Num" /\ right.t = "Str" ->
           (CASE op = "Plus" -> binary_check(Str(F64Display(left.f) \o right.s))
              [] OTHER -> Err("Error", "Unreachable according to string and num binary expression"))
      [] left.t = "Nil" /\ right.t = "Nil" ->
           (CASE op = "Equal" -> binary_check(Bool(TRUE))
              [] op = "BangEqual" -> binary_check(Bool(FALSE))
              [] OTHER -> Err("Error", "Unreachable according to nil binary expression"))
      [] left.t = "Nil" /\ right.t # "Nil" ->
           (CASE op = "Equal" -> binary_check(Bool(FALSE))
              [] op = "BangEqual" -> binary_check(Bool(TRUE))
              [] OTHER -> Err("Error", "Unreachable according to nil eq other binary expression"))
      [] left.t = "Bool" /\ right.t = "Bool" ->
           (CASE op = "Equal" -> binary_check(Bool(left.b = right.b))
              [] op = "BangEqual" -> binary_check(Bool(left.b # right.b))
              [] OTHER -> Err("Error", "Unreachable according to bool binary expression"))
      [] OTHER -> mismatched_operands(left, op, right)

\* Interpreter::visit_unary_expr on an evaluated operand
visit_unary_expr(op, right) ==
    CASE op = "Minus" -> (IF right.t = "Num" THEN Ok(NumF(F64Neg(right.f))) ELSE Ok(Nil))
      [] op = "Bang" -> Ok(Bool(~is_truthy(right)))
      [] OTHER -> Err("Error", "Unreachable according to Unary expression")

(***************************************************************************)
(* The AST (Expr and Stmt).  An Option is a sequence of length 0 or 1.  A  *)
(* Variable or Assign node carries an id: the identity of the Rc<Expr> the *)
(* resolver keys its distances by.                                         *)
(***************************************************************************)
Literal(v) == [k |-> "Literal", value |-> v]

Variable(name, id) == [k |-> "Variable", name |-> name, id |-> id]

Assign(name, value, id) == [k |-> "Assign", name |-> name, value |-> value, id |-> id]

Binary(left, op, right) == [k |-> "Binary", left |-> left, operator |-> op, right |-> right]

Logical(left, op, right) == [k |-> "Logical", left |-> left, operator |-> op, right |-> right]

Unary(op, right) == [k |-> "Unary", operator |-> op, right |-> right]

Grouping(e) == [k |-> "Grouping", expression |-> e]

Call(callee, arguments) == [k |-> "Call", callee |-> callee, arguments |-> arguments]

BlockStmt(statements) == [k |-> "Block", statements |-> statements]

BreakStmt == [k |-> "Break"]

ExpressionStmt(e) == [k |-> "Expression", expression |-> e]

FunctionStmt(name, params, body) ==
    [k |-> "Function", name |-> name, params |-> params, body |-> body]

IfStmt(c, t, e) == [k |-> "If", condition |-> c, then_branch |-> t, else_branch |-> e]

PrintStmt(e) == [k |-> "Print", expression |-> e]

ReturnStmt(value) == [k |-> "Return", value |-> value]

VarStmt(name, initializer) == [k |-> "Var", name |-> name, initializer |-> initializer]

WhileStmt(c, body) == [k |-> "While", condition |-> c, body |-> body]

(***************************************************************************)
(* HashMap<String, V>: a function on the set of its keys.                  *)
(***************************************************************************)
EmptyMap == [x \in {} |-> TRUE]

Insert(m, key, v) == [x \in DOMAIN m \cup {key} |-> IF x = key THEN v ELSE m[x]]

(***************************************************************************)
(* Resolver (resolver.rs).  R is the record of its fields; `locals` is the *)
(* map Interpreter::resolve fills.  Every visitor returns [R, r] with r    *)
(* "Ok" or "Err", and `?` is the early return on "Err".                    *)
(***************************************************************************)
\* `?`: the early return of an Err, and otherwise the rest K of the method
Bind(res, K(_)) == IF res.r # "Ok" THEN res ELSE K(res)

\* Resolver::new
ResolverNew ==
    [scopes |-> <<>>, has_error |-> FALSE, current_fun_type |-> "None",
     current_class_type |-> "None", in_while |-> FALSE, locals |-> EmptyMap,
     resolved |-> {}]

ROk(R) == [R |-> R, r |-> "Ok"]

RErr(R) == [R |-> R, r |-> "Err"]

\* Resolver::error
resolver_error(R) == [R EXCEPT !.has_error = TRUE]

\* Resolver::begin_scope
begin_scope(R) == [R EXCEPT !.scopes = Append(@, EmptyMap)]

\* Resolver::end_scope (Vec::pop of an empty Vec does nothing)
end_scope(R) ==
    [R EXCEPT !.scopes = IF @ = <<>> THEN @ ELSE SubSeq(@, 1, Len(@) - 1)]

\* Resolver::declare
declare(name, R) ==
    IF R.scopes = <<>> THEN R
    ELSE LET n == Len(R.scopes)
             R1 == IF name \in DOMAIN R.scopes[n] THEN resolver_error(R) ELSE R
         IN  [R1 EXCEPT !.scopes[n] = Insert(@, name, FALSE)]

\* Resolver::define
define(name, R) ==
    IF R.scopes = <<>> THEN R
    ELSE [R EXCEPT !.scopes[Len(R.scopes)] = Insert(@, name, TRUE)]

\* Interpreter::resolve(expr, depth), called by the resolver
interpreter_resolve(R, id, depth) == [R EXCEPT !.locals = Insert(@, id, depth)]

\* Resolver::resolve_local: the innermost scope that holds the name, if any
resolve_local(id, name, R) ==
    LET n == Len(R.scopes)
        hits == {d \in 0..(n - 1) : name \in DOMAIN R.scopes[n - d]}
    IN  IF hits = {} THEN R
        ELSE interpreter_resolve(R, id, CHOOSE d \in hits : \A e \in hits : d <= e)

\* visit_variable_expr without the check of the declared-but-undefined name
resolver_visit_variable_expr_unchecked(expr, R) ==
    ROk(resolve_local(expr.id, expr.name, R))

\* Resolver::visit_variable_expr
resolver_visit_variable_expr(expr, R) ==
    IF /\ R.scopes # <<>>
       /\ expr.name \in DOMAIN R.scopes[Len(R.scopes)]
       /\ R.scopes[Len(R.scopes)][expr.name] = FALSE
    THEN RErr(R)
    ELSE ROk(resolve_local(expr.id, expr.name, R))

\* Resolver::visit_super_expr
resolver_visit_super_expr(expr, R) ==
    ROk(resolve_local(expr.keyword, "super",
                      IF R.current_class_type # "SubClass" THEN resolver_error(R) ELSE R))

\* Resolver::visit_this_expr
resolver_visit_this_expr(expr, R) ==
    ROk(resolve_local(expr.id, "this",
                      IF R.current_class_type = "None" THEN resolver_error(R) ELSE R))

RECURSIVE resolve_expr(_, _)
RECURSIVE resolve_exprs(_, _)
RECURSIVE resolve_stmt(_, _)
RECURSIVE resolve(_, _)

\* the loop of Resolver::visit_call_expr over the arguments
resolve_exprs(exprs, R) ==
    IF exprs = <<>> THEN ROk(R)
    ELSE LET a == resolve_expr(Head(exprs), R)
         IN  IF a.r # "Ok" THEN a ELSE resolve_exprs(Tail(exprs), a.R)

\* Resolver::resolve_expr: expr.accept dispatches to the visit_*_expr
resolve_expr(expr, R) ==
    CASE expr.k = "Assign" ->
           LET a == resolve_expr(expr.value, R)
           IN  IF a.r # "Ok" THEN a ELSE ROk(resolve_local(expr.id, expr.name, a.R))
      [] expr.k \in {"Binary", "Logical"} ->
           LET a == resolve_expr(expr.left, R)
           IN  IF a.r # "Ok" THEN a ELSE resolve_expr(expr.right, a.R)
      [] expr.k = "Call" ->
           LET a == resolve_expr(expr.callee, R)
           IN  IF a.r # "Ok" THEN a ELSE resolve_exprs(expr.arguments, a.R)
      [] expr.k = "Grouping" -> resolve_expr(expr.expression, R)
      [] expr.k = "Literal" -> ROk(R)
      [] expr.k = "Unary" -> resolve_expr(expr.right, R)
      [] expr.k = "Variable" -> resolver_visit_variable_expr(expr, R)
      [] expr.k = "Get" -> resolve_expr(expr.object, R)
      [] expr.k = "Set" ->
           Bind(resolve_expr(expr.value, R), LAMBDA a : resolve_expr(expr.object, a.R))
      [] expr.k = "Super" -> resolver_visit_super_expr(expr, R)
      [] expr.k = "This" -> resolver_visit_this_expr(expr, R)

\* the loop of Resolver::resolve_function over the parameters
RECURSIVE declare_params(_, _)
declare_params(params, R) ==
    IF params = <<>> THEN R
    ELSE declare_params(Tail(params), define(Head(params), declare(Head(params), R)))

\* Resolver::resolve_function
resolve_function(function, func_type, R) ==
    LET enclosing_func == R.current_fun_type
        R1 == declare_params(function.params,
                             begin_scope([R EXCEPT !.current_fun_type = func_type]))
        a == resolve(function.body, R1)
    IN  IF a.r # "Ok" THEN a
        ELSE ROk([end_scope(a.R) EXCEPT !.current_fun_type = enclosing_func])

\* Resolver::visit_block_stmt
resolver_visit_block_stmt(stmt, R) ==
    LET a == resolve(stmt.statements, begin_scope(R))
    IN  IF a.r # "Ok" THEN a ELSE ROk(end_scope(a.R))

\* visit_break_stmt that forgets to report
resolver_visit_break_stmt_silent(stmt, R) == ROk(R)

\* Resolver::visit_break_stmt
resolver_visit_break_stmt(stmt, R) ==
    IF ~R.in_while THEN ROk(resolver_error(R)) ELSE ROk(R)

\* Resolver::visit_function_stmt
resolver_visit_function_stmt(stmt, R) ==
    resolve_function(stmt, "Function", define(stmt.name, declare(stmt.name, R)))

\* Resolver::visit_if_stmt
resolver_visit_if_stmt(stmt, R) ==
    LET a == resolve_expr(stmt.condition, R)
    IN  IF a.r # "Ok" THEN a
        ELSE LET b == resolve_stmt(stmt.then_branch, a.R)
             IN  IF b.r # "Ok" \/ stmt.else_branch = <<>> THEN b
                 ELSE resolve_stmt(stmt.else_branch[1], b.R)

\* Resolver::visit_return_stmt
resolver_visit_return_stmt(stmt, R) ==
    LET R1 == IF R.current_fun_type = "None" THEN resolver_error(R) ELSE R
    IN  IF stmt.value = <<>> THEN ROk(R1)
        ELSE LET R2 == IF R1.current_fun_type = "Initializer"
                       THEN resolver_error(R1) ELSE R1
             IN  resolve_expr(stmt.value[1], R2)

\* Resolver::visit_var_stmt
resolver_visit_var_stmt(stmt, R) ==
    LET R1 == declare(stmt.name, R)
        a == IF stmt.initializer = <<>> THEN ROk(R1)
             ELSE resolve_expr(stmt.initializer[1], R1)
    IN  IF a.r # "Ok" THEN a ELSE ROk(define(stmt.name, a.R))

\* Resolver::visit_while_stmt
resolver_visit_while_stmt(stmt, R) ==
    LET previous_nesting == R.in_while
        a == resolve_expr(stmt.condition, [R EXCEPT !.in_while = TRUE])
    IN  IF a.r # "Ok" THEN a
        ELSE LET b == resolve_stmt(stmt.body, a.R)
             IN  IF b.r # "Ok" THEN b
                 ELSE ROk([b.R EXCEPT !.in_while = previous_nesting])

\* scopes.borrow().last().unwrap().borrow_mut().insert(name, true)
insert_last(name, R) == [R EXCEPT !.scopes[Len(R.scopes)] = Insert(@, name, TRUE)]

\* Resolver::visit_class_stmt, the superclass clause
resolve_superclass(stmt, R) ==
    IF stmt.superclass = <<>> THEN ROk(R)
    ELSE IF stmt.superclass[1].k # "Variable" THEN ROk(resolver_error(R))
    ELSE IF stmt.name = stmt.superclass[1].name THEN ROk(resolver_error(R))
    ELSE Bind(resolve_expr(stmt.superclass[1], [R EXCEPT !.current_class_type = "SubClass"]),
              LAMBDA a : ROk(insert_last("super", begin_scope(a.R))))

\* Resolver::visit_class_stmt, the loop over the methods
RECURSIVE resolve_methods(_, _)
resolve_methods(methods, R) ==
    IF methods = <<>> THEN ROk(R)
    ELSE IF Head(methods).k # "Function" THEN RErr(R)
    ELSE Bind(resolve_function(Head(methods),
                               IF Head(methods).name = "init" THEN "Initializer"
                               ELSE "Method", R),
              LAMBDA a : resolve_methods(Tail(methods), a.R))

\* Resolver::visit_class_stmt
resolver_visit_class_stmt(stmt, R) ==
    Bind(resolve_superclass(stmt, define(stmt.name,
             declare(stmt.name, [R EXCEPT !.current_class_type = "Class"]))), LAMBDA s :
    Bind(resolve_methods(stmt.methods, insert_last("this", begin_scope(s.R))), LAMBDA m :
        ROk([(IF stmt.superclass # <<>> THEN end_scope(end_scope(m.R)) ELSE end_scope(m.R))
                EXCEPT !.current_class_type = R.current_class_type])))

\* log: resolve_stmt, entered with the resolver R for a statement of kind
\* k, returned res
log_resolved(k, R, res) ==
    [res EXCEPT !.R.resolved = @ \cup {[k |-> k, before |-> Len(R.scopes),
                                        after |-> Len(res.R.scopes), r |-> res.r]}]

\* Resolver::resolve_stmt: statement.accept dispatches to the visit_*_stmt
resolve_stmt(stmt, R) ==
    log_resolved(stmt.k, R,
        CASE stmt.k = "Block" -> resolver_visit_block_stmt(stmt, R)
          [] stmt.k = "Break" -> resolver_visit_break_stmt(stmt, R)
          [] stmt.k = "Class" -> resolver_visit_class_stmt(stmt, R)
          [] stmt.k = "Expression" -> resolve_expr(stmt.expression, R)
          [] stmt.k = "Function" -> resolver_visit_function_stmt(stmt, R)
          [] stmt.k = "If" -> resolver_visit_if_stmt(stmt, R)
          [] stmt.k = "Print" -> resolve_expr(stmt.expression, R)
          [] stmt.k = "Return" -> resolver_visit_return_stmt(stmt, R)
          [] stmt.k = "Var" -> resolver_visit_var_stmt(stmt, R)
          [] stmt.k = "While" -> resolver_visit_while_stmt(stmt, R))

\* Resolver::resolve: stops at the first statement that returns Err
resolve(statements, R) ==
    IF statements = <<>> THEN ROk(R)
    ELSE LET a == resolve_stmt(Head(statements), R)
         IN  IF a.r # "Ok" THEN a ELSE resolve(Tail(statements), a.R)

(***************************************************************************)
(* Environment (environment.rs).  An Rc<RefCell<Environment>> is an index  *)
(* into `heap`, the sequence of all environments allocated so far; 0 is    *)
(* the None of `enclosing`.  Two holders of one index share the bindings.  *)
(***************************************************************************)
\* Environment::new
EnvironmentNew == [variables |-> EmptyMap, enclosing |-> 0]

\* Environment::new_with_enclosing
new_with_enclosing(enclosing) == [variables |-> EmptyMap, enclosing |-> enclosing]

\* Environment::define
environment_define(env, name, value) ==
    [env EXCEPT !.variables = Insert(@, name, value)]

RECURSIVE environment_get(_, _, _)
RECURSIVE environment_assign(_, _, _, _)

\* Environment::get that looks only into the receiver, never into `enclosing`
environment_get_own(heap, e, name) ==
    IF name \in DOMAIN heap[e].variables
    THEN [r |-> "Ok", v |-> heap[e].variables[name], at |-> e, msg |-> ""]
    ELSE [r |-> "RuntimeError", v |-> Nil, at |-> 0, msg |-> "Undefined variable"]

\* Environment::get; `at` is the environment the name was found in
environment_get(heap, e, name) ==
    IF name \in DOMAIN heap[e].variables
    THEN [r |-> "Ok", v |-> heap[e].variables[name], at |-> e, msg |-> ""]
    ELSE IF heap[e].enclosing # 0
    THEN environment_get(heap, heap[e].enclosing, name)
    ELSE [r |-> "RuntimeError", v |-> Nil, at |-> 0, msg |-> "Undefined variable"]

\* Environment::assign that inserts into the receiver whatever it holds
environment_assign_inserting(heap, e, name, value) ==
    [r |-> "Ok", heap |-> [heap EXCEPT ![e] = environment_define(@, name, value)],
     at |-> e, msg |-> ""]

\* Environment::assign; `at` is the environment whose binding was replaced
environment_assign(heap, e, name, value) ==
    IF name \in DOMAIN heap[e].variables
    THEN [r |-> "Ok", heap |-> [heap EXCEPT ![e].variables[name] = value], at |-> e,
          msg |-> ""]
    ELSE IF heap[e].enclosing # 0
    THEN environment_assign(heap, heap[e].enclosing, name, value)
    ELSE [r |-> "RuntimeError", heap |-> heap, at |-> 0, msg |-> "Undefined variable"]

\* Environment::get_at(0, name), used by LoxFunction::call for initializers
get_at0(heap, e, name) ==
    IF name \in DOMAIN heap[e].variables
    THEN [r |-> "Ok", v |-> heap[e].variables[name]]
    ELSE [r |-> "RuntimeError", v |-> Nil]

\* the environment d links outward from e (0 when the chain is shorter)
RECURSIVE ancestor(_, _, _)
ancestor(heap, e, d) ==
    IF d = 0 \/ e = 0 THEN e ELSE ancestor(heap, heap[e].enclosing, d - 1)

(***************************************************************************)
(* Interpreter (interpreter.rs) and LoxFunction (lox_function.rs).  I is   *)
(* the record of the interpreter: its fields (environment, nest; globals   *)
(* is index 1), the heap, the lines printed, the locals of the resolver    *)
(* and a log of what happened (blocks, accesses, functions).  Every        *)
(* visitor returns [I, r, v]: r is "Ok" or a variant of LoxResult, v the   *)
(* value of Ok or of ReturnValue.  "Diverges" stands for a loop that ran   *)
(* more than MaxIter times.                                                *)
(***************************************************************************)
Globals == 1

\* what NativeClock::call returns: milliseconds since the epoch
ClockMillis == 1000

NativeClock == [t |-> "Func", kind |-> "NativeClock"]

\* Interpreter::new
InterpreterNew ==
    [heap |-> <<environment_define(EnvironmentNew, "clock", NativeClock)>>,
     environment |-> Globals, nest |-> 0, out |-> <<>>, locals |-> EmptyMap,
     blocks |-> {}, accesses |-> {}, functions |-> {}, calls |-> {},
     defined |-> {}, whiles |-> {}]

IRes(I, r, v) == [I |-> I, r |-> r, v |-> v]

\* Display for Object and for Callable
Display(value) ==
    CASE value.t = "Num" -> F64Display(value.f)
      [] value.t = "Str" -> <<34>> \o value.s \o <<34>>
      [] value.t = "Bool" ->
           (IF value.b THEN <<116, 114, 117, 101>> ELSE <<102, 97, 108, 115, 101>>)
      [] value.t = "Nil" -> <<110, 105, 108>>
      [] value.t = "Func" -> <<60, 99, 97, 108, 108, 97, 98, 108, 101, 62>>

\* log: the variable node `id` was read or written in environment `at`,
\* where the resolver's distance (or, without one, globals) says `expect`
log_access(I, id, at) ==
    LET expect == IF id \in DOMAIN I.locals
                  THEN ancestor(I.heap, I.environment, I.locals[id])
                  ELSE Globals
    IN  [I EXCEPT !.accesses = @ \cup {[id |-> id, at |-> at, expect |-> expect]}]

\* log: a call of execute_block entered with I and returned res
log_block(I, res) ==
    [res EXCEPT !.I.blocks =
        @ \cup {[prev |-> I.environment, after |-> res.I.environment, r |-> res.r]}]

\* LoxFunction::new capturing a clone of the environment instead of the Rc
LoxFunction_new_by_copy(declaration, closure, heap) ==
    [function |-> [t |-> "Func", kind |-> "LoxFunction", name |-> declaration.name,
                   params |-> declaration.params, body |-> declaration.body,
                   closure |-> Len(heap) + 1, is_initialized |-> FALSE],
     heap |-> Append(heap, heap[closure])]

\* LoxFunction::new: the function and the heap (which it leaves alone)
LoxFunction_new(declaration, closure, heap) ==
    [function |-> [t |-> "Func", kind |-> "LoxFunction", name |-> declaration.name,
                   params |-> declaration.params, body |-> declaration.body,
                   closure |-> closure, is_initialized |-> FALSE],
     heap |-> heap]

\* LoxCallable::arity
arity(function) ==
    IF function.kind = "NativeClock" THEN 0 ELSE Len(function.params)

\* the environment LoxFunction::call builds: params zipped with arguments
call_environment(function, arguments) ==
    LET n == IF Len(function.params) < Len(arguments)
             THEN Len(function.params) ELSE Len(arguments)
        names == {function.params[i] : i \in 1..n}
        last(x) == CHOOSE i \in 1..n :
                       /\ function.params[i] = x
                       /\ \A j \in 1..n : function.params[j] = x => j <= i
    IN  [variables |-> [x \in names |-> arguments[last(x)]],
         enclosing |-> function.closure]

\* Interpreter::visit_break_stmt
visit_break_stmt(stmt, I) ==
    IF I.nest = 0 THEN IRes(I, "RuntimeError", Nil) ELSE IRes(I, "Break", Nil)

RECURSIVE evaluate(_, _)
RECURSIVE evaluate_arguments(_, _, _)
RECURSIVE execute(_, _)
RECURSIVE try_for_each(_, _)
RECURSIVE execute_block(_, _, _)
RECURSIVE while_loop(_, _, _)
RECURSIVE LoxFunction_call(_, _, _)

\* execute_block's last lines, with the restore skipped when a statement
\* returned Err
restore_on_ok(previous, result) ==
    IF result.r = "Ok"
    THEN IRes([result.I EXCEPT !.environment = previous], result.r, result.v)
    ELSE result

\* execute_block's last lines: self.environment = previous; result
restore(previous, result) ==
    IRes([result.I EXCEPT !.environment = previous], result.r, result.v)

\* execute_block with the restore skipped when a statement returned Err
execute_block_restore_on_ok(statements, env, I) ==
    LET heap1 == Append(I.heap, env)
    IN  restore_on_ok(I.environment,
                      try_for_each(statements,
                                   [I EXCEPT !.heap = heap1, !.environment = Len(heap1)]))

\* Interpreter::execute_block
execute_block(statements, env, I) ==
    LET heap1 == Append(I.heap, env)
    IN  restore(I.environment,
                try_for_each(statements,
                             [I EXCEPT !.heap = heap1, !.environment = Len(heap1)]))

\* statements.iter().try_for_each(|statement| self.execute(statement))
try_for_each(statements, I) ==
    IF statements = <<>> THEN IRes(I, "Ok", Nil)
    ELSE Bind(execute(Head(statements), I),
              LAMBDA a : try_for_each(Tail(statements), a.I))

\* the `match` of LoxFunction::call on the result res of execute_block
call_result(function, res) ==
    LET this == get_at0(res.I.heap, function.closure, "this")
    IN  CASE res.r = "ReturnValue" ->
               (IF function.is_initialized THEN IRes(res.I, this.r, this.v)
                ELSE IRes(res.I, "Ok", res.v))
          [] res.r = "Ok" ->
               (IF function.is_initialized THEN IRes(res.I, this.r, this.v)
                ELSE IRes(res.I, "Ok", Nil))
          [] OTHER -> res

\* LoxFunction::call
LoxFunction_call(function, arguments, I) ==
    call_result(function,
                log_block(I, execute_block(function.body,
                                           call_environment(function, arguments), I)))

\* the loop of Interpreter::visit_call_expr over the arguments
evaluate_arguments(exprs, acc, I) ==
    IF exprs = <<>> THEN IRes(I, "Ok", acc)
    ELSE Bind(evaluate(Head(exprs), I),
              LAMBDA a : evaluate_arguments(Tail(exprs), Append(acc, a.v), a.I))

\* the message of visit_call_expr for a wrong number of arguments:
\* format!("Expect {} arguments but got {}.", arity, len)
arity_message(expected, got) == <<"Expect ", expected, " arguments but got ", got, ".">>

\* log: visit_call_expr, its arguments evaluated, went on from I to call
\* `function` with `arguments` and returned res, an error having `message`
log_call(I, function, arguments, message, res) ==
    [res EXCEPT !.I.calls =
        @ \cup {[arity |-> arity(function), got |-> Len(arguments), r |-> res.r,
                 message |-> message,
                 before |-> [heap |-> I.heap, environment |-> I.environment],
                 after |-> [heap |-> res.I.heap, environment |-> res.I.environment]]}]

\* call_function without the comparison of arguments.len() with the arity
call_function_unchecked(function, arguments, I) ==
    IF function.t # "Func" THEN IRes(I, "RuntimeError", Nil)
    ELSE IF function.kind = "NativeClock"
    THEN log_call(I, function, arguments, <<>>, IRes(I, "Ok", Num(ClockMillis)))
    ELSE log_call(I, function, arguments, <<>>, LoxFunction_call(function, arguments, I))

\* visit_call_expr past the evaluation of the callee and of the arguments:
\* the `if let Object::Func(function) = callee`, the check of the arity and
\* function.call(self, arguments)
call_function(function, arguments, I) ==
    IF function.t # "Func" THEN IRes(I, "RuntimeError", Nil)
    ELSE IF Len(arguments) # arity(function)
    THEN log_call(I, function, arguments,
                  arity_message(arity(function), Len(arguments)),
                  IRes(I, "RuntimeError", Nil))
    ELSE IF function.kind = "NativeClock"
    THEN log_call(I, function, arguments, <<>>, IRes(I, "Ok", Num(ClockMillis)))
    ELSE log_call(I, function, arguments, <<>>, LoxFunction_call(function, arguments, I))

\* visit_call_expr without the comparison of arguments.len() with the arity
visit_call_expr_unchecked(expr, I) ==
    Bind(evaluate(expr.callee, I), LAMBDA callee :
        Bind(evaluate_arguments(expr.arguments, <<>>, callee.I), LAMBDA arguments :
            call_function_unchecked(callee.v, arguments.v, arguments.I)))

\* Interpreter::visit_call_expr
visit_call_expr(expr, I) ==
    Bind(evaluate(expr.callee, I), LAMBDA callee :
        Bind(evaluate_arguments(expr.arguments, <<>>, callee.I), LAMBDA arguments :
            call_function(callee.v, arguments.v, arguments.I)))

\* Interpreter::visit_variable_expr
visit_variable_expr(expr, I) ==
    LET g == environment_get(I.heap, I.environment, expr.name)
    IN  IF g.r # "Ok" THEN IRes(I, g.r, Nil)
        ELSE IRes(log_access(I, expr.id, g.at), "Ok", g.v)

\* Interpreter::visit_assign_expr
visit_assign_expr(expr, I) ==
    Bind(evaluate(expr.value, I), LAMBDA value :
        LET s == environment_assign(value.I.heap, value.I.environment,
                                    expr.name, value.v)
        IN  IF s.r # "Ok" THEN IRes(value.I, s.r, Nil)
            ELSE IRes(log_access([value.I EXCEPT !.heap = s.heap], expr.id, s.at),
                      "Ok", value.v))

\* Interpreter::visit_logical_expr
visit_logical_expr(expr, I) ==
    Bind(evaluate(expr.left, I), LAMBDA left :
        IF expr.operator = "Or" /\ is_truthy(left.v) THEN left
        ELSE IF expr.operator # "Or" /\ ~is_truthy(left.v) THEN left
        ELSE evaluate(expr.right, left.I))

\* Interpreter::evaluate: expr.accept dispatches to the visit_*_expr
evaluate(expr, I) ==
    CASE expr.k = "Assign" -> visit_assign_expr(expr, I)
      [] expr.k = "Binary" ->
           Bind(evaluate(expr.left, I), LAMBDA left :
               Bind(evaluate(expr.right, left.I), LAMBDA right :
                   LET b == visit_binary_expr(left.v, expr.operator, right.v)
                   IN  IRes(right.I, b.r, b.v)))
      [] expr.k = "Call" -> visit_call_expr(expr, I)
      [] expr.k = "Grouping" -> evaluate(expr.expression, I)
      [] expr.k = "Literal" -> IRes(I, "Ok", expr.value)
      [] expr.k = "Logical" -> visit_logical_expr(expr, I)
      [] expr.k = "Unary" ->
           Bind(evaluate(expr.right, I), LAMBDA right :
               LET u == visit_unary_expr(expr.operator, right.v)
               IN  IRes(right.I, u.r, u.v))
      [] expr.k = "Variable" -> visit_variable_expr(expr, I)

\* Interpreter::visit_block_stmt
visit_block_stmt(stmt, I) ==
    LET e == new_with_enclosing(I.environment)
    IN  log_block(I, execute_block(stmt.statements, e, I))

\* Interpreter::visit_function_stmt
visit_function_stmt(stmt, I) ==
    LET f == LoxFunction_new(stmt, I.environment, I.heap)
        heap1 == [f.heap EXCEPT ![I.environment] =
                     environment_define(@, stmt.name, f.function)]
    IN  IRes([I EXCEPT !.heap = heap1,
                       !.functions = @ \cup {[name |-> stmt.name,
                                              closure |-> f.function.closure,
                                              declared_in |-> I.environment]}],
             "Ok", Nil)

\* Interpreter::visit_if_stmt
visit_if_stmt(stmt, I) ==
    Bind(evaluate(stmt.condition, I), LAMBDA c :
        IF is_truthy(c.v) THEN execute(stmt.then_branch, c.I)
        ELSE IF stmt.else_branch # <<>> THEN execute(stmt.else_branch[1], c.I)
        ELSE IRes(c.I, "Ok", Nil))

\* Interpreter::visit_print_stmt
visit_print_stmt(stmt, I) ==
    Bind(evaluate(stmt.expression, I), LAMBDA value :
        IRes([value.I EXCEPT !.out = Append(@, Display(value.v))], "Ok", Nil))

\* Interpreter::visit_return_stmt
visit_return_stmt(stmt, I) ==
    IF stmt.value = <<>> THEN IRes(I, "ReturnValue", Nil)
    ELSE Bind(evaluate(stmt.value[1], I),
              LAMBDA value : IRes(value.I, "ReturnValue", value.v))

\* log: visit_var_stmt, entered in environment `current`, took the heap
\* from `before` to `after` for the variable `name`
log_define(I, name, before, after) ==
    [I EXCEPT !.defined = @ \cup {[name |-> name, current |-> I.environment,
                                   before |-> before, after |-> after]}]

\* visit_var_stmt writing to the binding an enclosing environment already
\* has for the name, and defining the name only when there is none
visit_var_stmt_assigning(stmt, I) ==
    Bind(IF stmt.initializer = <<>> THEN IRes(I, "Ok", Nil)
         ELSE evaluate(stmt.initializer[1], I),
         LAMBDA value :
            LET assigned == environment_assign(value.I.heap, value.I.environment,
                                               stmt.name, value.v)
                heap == IF assigned.r = "Ok" THEN assigned.heap
                        ELSE [value.I.heap EXCEPT ![value.I.environment] =
                                 environment_define(@, stmt.name, value.v)]
            IN  IRes(log_define([value.I EXCEPT !.heap = heap], stmt.name,
                                value.I.heap, heap),
                     "Ok", Nil))

\* Interpreter::visit_var_stmt
visit_var_stmt(stmt, I) ==
    Bind(IF stmt.initializer = <<>> THEN IRes(I, "Ok", Nil)
         ELSE evaluate(stmt.initializer[1], I),
         LAMBDA value :
            LET heap == [value.I.heap EXCEPT ![value.I.environment] =
                            environment_define(@, stmt.name, value.v)]
            IN  IRes(log_define([value.I EXCEPT !.heap = heap], stmt.name,
                                value.I.heap, heap),
                     "Ok", Nil))

\* visit_while_stmt past one execution b of the body: Err(Break) leaves the
\* loop, any other Err is returned, Ok goes back to the condition
after_body(stmt, b, fuel) ==
    CASE b.r = "Break" -> IRes([b.I EXCEPT !.nest = @ - 1], "Ok", Nil)
      [] b.r = "Ok" -> while_loop(stmt, b.I, fuel - 1)
      [] OTHER -> b

\* the `while` of Interpreter::visit_while_stmt and the lines after it
while_loop(stmt, I, fuel) ==
    Bind(evaluate(stmt.condition, I), LAMBDA c :
        IF ~is_truthy(c.v) THEN IRes([c.I EXCEPT !.nest = @ - 1], "Ok", Nil)
        ELSE IF fuel = 0 THEN IRes(c.I, "Diverges", Nil)
        ELSE after_body(stmt, execute(stmt.body, c.I), fuel))

\* log: visit_while_stmt, entered with the interpreter I, returned res
log_while(I, res) ==
    [res EXCEPT !.I.whiles = @ \cup {[before |-> I.nest, after |-> res.I.nest, r |-> res.r]}]

\* Interpreter::visit_while_stmt
visit_while_stmt(stmt, I) ==
    log_while(I, while_loop(stmt, [I EXCEPT !.nest = @ + 1], MaxIter))

\* Interpreter::execute: stmt.accept dispatches to the visit_*_stmt
execute(stmt, I) ==
    CASE stmt.k = "Block" -> visit_block_stmt(stmt, I)
      [] stmt.k = "Break" -> visit_break_stmt(stmt, I)
      [] stmt.k = "Expression" ->
           Bind(evaluate(stmt.expression, I), LAMBDA a : IRes(a.I, "Ok", Nil))
      [] stmt.k = "Function" -> visit_function_stmt(stmt, I)
      [] stmt.k = "If" -> visit_if_stmt(stmt, I)
      [] stmt.k = "Print" -> visit_print_stmt(stmt, I)
      [] stmt.k = "Return" -> visit_return_stmt(stmt, I)
      [] stmt.k = "Var" -> visit_var_stmt(stmt, I)
      [] stmt.k = "While" -> visit_while_stmt(stmt, I)

(***************************************************************************)
(* Programs.  A program is a sequence of up to MaxStmts statements of the  *)
(* pool, or one of the scenarios below.  PoolStmt(i, b) numbers its        *)
(* variable nodes from b + 1, so that two uses of a pool statement in one  *)
(* program are different nodes.                                            *)
(***************************************************************************)
Lit(n) == Literal(Num(n))

\* the statements PoolStmt knows
PoolIndices == 1..14

PoolStmt(i, b) ==
    CASE i = 1 -> \* var a = 1;
           VarStmt("a", <<Lit(1)>>)
      [] i = 2 -> \* print a;
           PrintStmt(Variable("a", b + 1))
      [] i = 3 -> \* { var a = a; }
           BlockStmt(<<VarStmt("a", <<Variable("a", b + 1)>>)>>)
      [] i = 4 -> \* var a = a;
           VarStmt("a", <<Variable("a", b + 1)>>)
      [] i = 5 -> \* return;
           ReturnStmt(<<>>)
      [] i = 6 -> \* break;
           BreakStmt
      [] i = 7 -> \* a = a + 1;
           ExpressionStmt(Assign("a", Binary(Variable("a", b + 1), "Plus", Lit(1)), b + 2))
      [] i = 8 -> \* while (true) { break; }
           WhileStmt(Literal(Bool(TRUE)), BlockStmt(<<BreakStmt>>))
      [] i = 9 -> \* { var a = 2; print a; }
           BlockStmt(<<VarStmt("a", <<Lit(2)>>), PrintStmt(Variable("a", b + 1))>>)
      [] i = 10 -> \* fun f() { return a; }
           FunctionStmt("f", <<>>, <<ReturnStmt(<<Variable("a", b + 1)>>)>>)
      [] i = 11 -> \* print f();
           PrintStmt(Call(Variable("f", b + 1), <<>>))
      [] i = 12 -> \* if (a == 1) return a; else { break; }
           IfStmt(Binary(Variable("a", b + 1), "Equal", Lit(1)),
                  ReturnStmt(<<Variable("a", b + 2)>>),
                  <<BlockStmt(<<BreakStmt>>)>>)
      [] i = 13 -> \* fun g(a) { { var a = a + 1; } }
           FunctionStmt("g", <<"a">>,
               <<BlockStmt(<<VarStmt("a", <<Binary(Variable("a", b + 1), "Plus", Lit(1))>>)>>)>>)
      [] i = 14 -> \* print 1 / 0;
           PrintStmt(Binary(Lit(1), "Slash", Lit(0)))

PoolPrograms ==
    UNION {{[j \in 1..n |-> PoolStmt(p[j], 10 * j)] : p \in [1..n -> PoolIndices]}
           : n \in 1..MaxStmts}

\* fun make() { var i = 0; fun inc() { i = i + 1; print i; } return inc; }
\* var c = make(); c(); c();
CounterProgram ==
    <<FunctionStmt("make", <<>>,
        <<VarStmt("i", <<Lit(0)>>),
          FunctionStmt("inc", <<>>,
            <<ExpressionStmt(Assign("i", Binary(Variable("i", 1), "Plus", Lit(1)), 2)),
              PrintStmt(Variable("i", 3))>>),
          ReturnStmt(<<Variable("inc", 4)>>)>>),
      VarStmt("c", <<Call(Variable("make", 5), <<>>)>>),
      ExpressionStmt(Call(Variable("c", 6), <<>>)),
      ExpressionStmt(Call(Variable("c", 7), <<>>))>>

\* var g; var h;
\* fun mk() { var i = 0; fun inc() { i = i + 1; } fun get() { print i; }
\*            g = inc; h = get; }
\* mk(); g(); h(); g(); h();
SharedProgram ==
    <<VarStmt("g", <<>>),
      VarStmt("h", <<>>),
      FunctionStmt("mk", <<>>,
        <<VarStmt("i", <<Lit(0)>>),
          FunctionStmt("inc", <<>>,
            <<ExpressionStmt(Assign("i", Binary(Variable("i", 1), "Plus", Lit(1)), 2))>>),
          FunctionStmt("get", <<>>, <<PrintStmt(Variable("i", 3))>>),
          ExpressionStmt(Assign("g", Variable("inc", 4), 5)),
          ExpressionStmt(Assign("h", Variable("get", 6), 7))>>),
      ExpressionStmt(Call(Variable("mk", 8), <<>>)),
      ExpressionStmt(Call(Variable("g", 9), <<>>)),
      ExpressionStmt(Call(Variable("h", 10), <<>>)),
      ExpressionStmt(Call(Variable("g", 11), <<>>)),
      ExpressionStmt(Call(Variable("h", 12), <<>>))>>

\* { print 1; }  fun f() { { return 1; } }  f();  while (true) { break; }
\* { print nope; }
BlocksProgram ==
    <<BlockStmt(<<PrintStmt(Lit(1))>>),
      FunctionStmt("f", <<>>, <<BlockStmt(<<ReturnStmt(<<Lit(1)>>)>>)>>),
      ExpressionStmt(Call(Variable("f", 1), <<>>)),
      WhileStmt(Literal(Bool(TRUE)), BlockStmt(<<BreakStmt>>)),
      BlockStmt(<<PrintStmt(Variable("nope", 2))>>)>>

\* var a = 1; { fun f() { print a; } f(); var a = 2; f(); }
ShadowLaterProgram ==
    <<VarStmt("a", <<Lit(1)>>),
      BlockStmt(<<FunctionStmt("f", <<>>, <<PrintStmt(Variable("a", 1))>>),
                  ExpressionStmt(Call(Variable("f", 2), <<>>)),
                  VarStmt("a", <<Lit(2)>>),
                  ExpressionStmt(Call(Variable("f", 3), <<>>))>>)>>

\* { var a = 1; { fun f() { print a; } f(); var a = 2; f(); } }
ShadowLocalProgram ==
    <<BlockStmt(<<VarStmt("a", <<Lit(1)>>),
                  BlockStmt(<<FunctionStmt("f", <<>>, <<PrintStmt(Variable("a", 1))>>),
                              ExpressionStmt(Call(Variable("f", 2), <<>>)),
                              VarStmt("a", <<Lit(2)>>),
                              ExpressionStmt(Call(Variable("f", 3), <<>>))>>)>>)>>

\* fun mk() { while (true) { fun g() { break; } return g; } }
\* var h = mk(); h();
BreakEscapesProgram ==
    <<FunctionStmt("mk", <<>>,
        <<WhileStmt(Literal(Bool(TRUE)),
            BlockStmt(<<FunctionStmt("g", <<>>, <<BreakStmt>>),
                        ReturnStmt(<<Variable("g", 1)>>)>>))>>),
      VarStmt("h", <<Call(Variable("mk", 2), <<>>)>>),
      ExpressionStmt(Call(Variable("h", 3), <<>>))>>

\* fun f(a) { var b = a; print b; } f(1); f();
TooFewProgram ==
    <<FunctionStmt("f", <<"a">>,
        <<VarStmt("b", <<Variable("a", 1)>>), PrintStmt(Variable("b", 2))>>),
      ExpressionStmt(Call(Variable("f", 3), <<Lit(1)>>)),
      ExpressionStmt(Call(Variable("f", 4), <<>>))>>

\* var a = 1; fun f() { a = 3; } f(a = 2); print a;
TooManyProgram ==
    <<VarStmt("a", <<Lit(1)>>),
      FunctionStmt("f", <<>>, <<ExpressionStmt(Assign("a", Lit(3), 1))>>),
      ExpressionStmt(Call(Variable("f", 2), <<Assign("a", Lit(2), 3)>>)),
      PrintStmt(Variable("a", 4))>>

\* print clock(); clock(1);
ClockProgram ==
    <<PrintStmt(Call(Variable("clock", 1), <<>>)),
      ExpressionStmt(Call(Variable("clock", 2), <<Lit(1)>>))>>

\* var a = 1; { var a = 2; print a; } print a;
ShadowBlockProgram ==
    <<VarStmt("a", <<Lit(1)>>),
      BlockStmt(<<VarStmt("a", <<Lit(2)>>), PrintStmt(Variable("a", 1))>>),
      PrintStmt(Variable("a", 2))>>

\* fun f() { while (true) { return 1; } } print f(); print 2;
ReturnInLoopProgram ==
    <<FunctionStmt("f", <<>>,
        <<WhileStmt(Literal(Bool(TRUE)), BlockStmt(<<ReturnStmt(<<Lit(1)>>)>>))>>),
      PrintStmt(Call(Variable("f", 1), <<>>)),
      PrintStmt(Lit(2))>>

\* while (true) { print nope; }
ErrorInLoopProgram ==
    <<WhileStmt(Literal(Bool(TRUE)), BlockStmt(<<PrintStmt(Variable("nope", 1))>>))>>

Scenarios ==
    {ShadowBlockProgram, CounterProgram, SharedProgram, BlocksProgram, ShadowLaterProgram,
     ShadowLocalProgram, BreakEscapesProgram, TooFewProgram, TooManyProgram,
     ClockProgram, ReturnInLoopProgram, ErrorInLoopProgram}

Programs == PoolPrograms \cup Scenarios

(***************************************************************************)
(* Spec: Lox::run of main.rs from the resolver on (lines 102-109).  One    *)
(* action is one iteration of the loop of Resolver::resolve or of          *)
(* Interpreter::interpret over the statements of the program.              *)
(***************************************************************************)
IdleParser == [at |-> "idle"]

IdleBin == [at |-> "idle"]

IdleScanner == [at |-> "idle"]

IdleInst == [at |-> "idle"]

IdleEnvs == [at |-> "idle"]

Init ==
    /\ program \in Programs
    /\ pc = [at |-> "resolve", i |-> 1]
    /\ resolver = ResolverNew
    /\ interp = InterpreterNew @@ [success |-> TRUE, received |-> "None"]
    /\ parser = IdleParser
    /\ bin = IdleBin
    /\ scanner = IdleScanner
    /\ inst = IdleInst
    /\ envs = IdleEnvs

\* Resolver::resolve: one statement; Err ends `run` through the `?` of main.rs
ResolveStmt ==
    /\ pc.at = "resolve"
    /\ pc.i <= Len(program)
    /\ LET a == resolve_stmt(program[pc.i], resolver)
       IN  /\ resolver' = a.R
           /\ pc' = IF a.r = "Ok" THEN [pc EXCEPT !.i = @ + 1]
                    ELSE [pc EXCEPT !.at = "resolve_err"]
    /\ UNCHANGED <<program, interp, parser, bin, scanner, inst, envs>>

\* main.rs: resolver.success() holds, Interpreter::interpret starts
ResolveAccept ==
    /\ pc.at = "resolve"
    /\ pc.i > Len(program)
    /\ ~resolver.has_error
    /\ interp' = [interp EXCEPT !.locals = resolver.locals, !.nest = 0]
    /\ pc' = [at |-> "interpret", i |-> 1]
    /\ UNCHANGED <<program, resolver, parser, bin, scanner, inst, envs>>

\* main.rs: resolver.success() fails, the interpreter is not run
ResolveReject ==
    /\ pc.at = "resolve"
    /\ pc.i > Len(program)
    /\ resolver.has_error
    /\ pc' = [pc EXCEPT !.at = "rejected"]
    /\ UNCHANGED <<program, resolver, interp, parser, bin, scanner, inst, envs>>

\* Interpreter::interpret: one statement; the first Err is reported and ends it
InterpretStmt ==
    /\ pc.at = "interpret"
    /\ pc.i <= Len(program)
    /\ LET a == execute(program[pc.i], interp)
       IN  IF a.r = "Ok"
           THEN /\ interp' = a.I
                /\ pc' = [pc EXCEPT !.i = @ + 1]
           ELSE /\ interp' = [a.I EXCEPT !.success = FALSE, !.received = a.r]
                /\ pc' = [pc EXCEPT !.at = "done"]
    /\ UNCHANGED <<program, resolver, parser, bin, scanner, inst, envs>>

\* Interpreter::interpret: the loop is over
InterpretDone ==
    /\ pc.at = "interpret"
    /\ pc.i > Len(program)
    /\ pc' = [pc EXCEPT !.at = "done"]
    /\ UNCHANGED <<program, resolver, interp, parser, bin, scanner, inst, envs>>

Next ==
    \/ ResolveStmt
    \/ ResolveAccept
    \/ ResolveReject
    \/ InterpretStmt
    \/ InterpretDone

Spec == Init /\ [][Next]_vars

(***************************************************************************)
(* Properties of Spec.                                                     *)
(***************************************************************************)
\* the expression reads the variable `name`
RECURSIVE ReadsVar(_, _)
ReadsVar(expr, name) ==
    CASE expr.k = "Variable" -> expr.name = name
      [] expr.k = "Assign" -> ReadsVar(expr.value, name)
      [] expr.k \in {"Binary", "Logical"} ->
           ReadsVar(expr.left, name) \/ ReadsVar(expr.right, name)
      [] expr.k = "Unary" -> ReadsVar(expr.right, name)
      [] expr.k = "Grouping" -> ReadsVar(expr.expression, name)
      [] expr.k = "Call" ->
           \/ ReadsVar(expr.callee, name)
           \/ \E i \in 1..Len(expr.arguments) : ReadsVar(expr.arguments[i], name)
      [] OTHER -> FALSE

\* the statement holds a `var x = ... x ...;`; with local = FALSE the
\* declarations at the nesting depth of the statement itself do not count
RECURSIVE SelfInit(_, _)
SelfInit(stmt, local) ==
    CASE stmt.k = "Var" ->
           local /\ stmt.initializer # <<>> /\ ReadsVar(stmt.initializer[1], stmt.name)
      [] stmt.k = "Block" ->
           \E i \in 1..Len(stmt.statements) : SelfInit(stmt.statements[i], TRUE)
      [] stmt.k = "Function" ->
           \E i \in 1..Len(stmt.body) : SelfInit(stmt.body[i], TRUE)
      [] stmt.k = "If" ->
           \/ SelfInit(stmt.then_branch, local)
           \/ (stmt.else_branch # <<>> /\ SelfInit(stmt.else_branch[1], local))
      [] stmt.k = "While" -> SelfInit(stmt.body, local)
      [] OTHER -> FALSE

HasSelfInit(stmts) == \E i \in 1..Len(stmts) : SelfInit(stmts[i], TRUE)

HasLocalSelfInit(stmts) == \E i \in 1..Len(stmts) : SelfInit(stmts[i], FALSE)

\* the statement holds a `return` that no function declaration encloses
RECURSIVE ReturnOutsideFunction(_)
ReturnOutsideFunction(stmt) ==
    CASE stmt.k = "Return" -> TRUE
      [] stmt.k = "Block" ->
           \E i \in 1..Len(stmt.statements) : ReturnOutsideFunction(stmt.statements[i])
      [] stmt.k = "If" ->
           \/ ReturnOutsideFunction(stmt.then_branch)
           \/ (stmt.else_branch # <<>> /\ ReturnOutsideFunction(stmt.else_branch[1]))
      [] stmt.k = "While" -> ReturnOutsideFunction(stmt.body)
      [] OTHER -> FALSE

\* the statement holds a `break` that no while statement encloses
RECURSIVE BreakOutsideLoop(_)
BreakOutsideLoop(stmt) ==
    CASE stmt.k = "Break" -> TRUE
      [] stmt.k = "Block" ->
           \E i \in 1..Len(stmt.statements) : BreakOutsideLoop(stmt.statements[i])
      [] stmt.k = "Function" ->
           \E i \in 1..Len(stmt.body) : BreakOutsideLoop(stmt.body[i])
      [] stmt.k = "If" ->
           \/ BreakOutsideLoop(stmt.then_branch)
           \/ (stmt.else_branch # <<>> /\ BreakOutsideLoop(stmt.else_branch[1]))
      [] OTHER -> FALSE

\* statement i of the program was resolved and returned Ok
ResolvedOk(i) == pc.at \in {"resolve", "resolve_err"} => i < pc.i

\* the interpreter was started on the program
InterpreterRan == pc.at \in {"interpret", "done"}

\* C1: every call of execute_block, from a Block statement or from a function
\* call, leaves the environment that was current when it was entered as the
\* current one, whether it ends Ok, with an error, a ReturnValue or a Break;
\* so between two top-level statements the current environment is globals.
C1_BlockRestoresEnvironment ==
    /\ \A b \in interp.blocks : b.after = b.prev
    /\ interp.environment = Globals

\* C1 witness: blocks were left on all four exit paths
C1_Witness ==
    /\ {b.r : b \in interp.blocks} = {"Ok", "RuntimeError", "ReturnValue", "Break"}
    /\ \E b \in interp.blocks : b.prev # Globals

\* C3: a function value holds the very environment (the same Rc) that was
\* current at its declaration, so the counter closure prints 1 then 2 and a
\* closure sees what another closure of the same environment assigned.
C3_ClosureSharesEnvironment ==
    /\ \A f \in interp.functions : f.closure = f.declared_in
    /\ (program = CounterProgram /\ pc.at = "done")
           => (interp.success /\ interp.out = <<<<49>>, <<50>>>>)
    /\ (program = SharedProgram /\ pc.at = "done")
           => (interp.success /\ interp.out = <<<<49>>, <<50>>>>)

\* C3 witness: the two closures of one environment were called, after the
\* function that declared them had returned
C3_Witness ==
    /\ program = SharedProgram
    /\ pc.at = "done"
    /\ interp.out = <<<<49>>, <<50>>>>

\* C4 (as claimed): every variable read or assignment touches the binding in
\* the environment the resolver's distance names, or in globals without one.
C4_AccessAtResolvedDistance ==
    \A a \in interp.accesses : a.at = a.expect

\* C5 (as claimed): a program with a self-referential `var` initializer at
\* any depth, the top level included, never reaches the interpreter.
C5_AnySelfInitRejected ==
    HasSelfInit(program) => ~InterpreterRan

\* C5 (amended): a program with a self-referential `var` initializer inside a
\* block or a function body never reaches the interpreter.
C5_LocalSelfInitRejected ==
    HasLocalSelfInit(program) => ~InterpreterRan

\* C5 witness: the resolver returned Err on such a program
C5_Witness ==
    /\ HasLocalSelfInit(program)
    /\ pc.at = "resolve_err"

\* C7 (as claimed): the resolver visits every statement of the program, and a
\* self-referential initializer sets its error flag.
C7_ResolverNeverStopsEarly ==
    /\ pc.at # "resolve_err"
    /\ (pc.at # "resolve" /\ HasLocalSelfInit(program)) => resolver.has_error

\* C8: once a top-level statement with a `return` outside any function or a
\* `break` outside any loop has been resolved, the error flag is set; and the
\* resolver returns Err only from a statement with a self-referential
\* initializer, never because of such a return or break.
C8_IllegalReturnBreakReported ==
    /\ \A i \in 1..Len(program) :
          (ResolvedOk(i) /\ (ReturnOutsideFunction(program[i]) \/ BreakOutsideLoop(program[i])))
              => resolver.has_error
    /\ pc.at = "resolve_err" => SelfInit(program[pc.i], FALSE)

\* C8 witness: the statement after an illegal return or break was resolved
C8_Witness ==
    /\ pc.at = "resolve"
    /\ pc.i = 3
    /\ ReturnOutsideFunction(program[1]) \/ BreakOutsideLoop(program[1])
    /\ resolver.has_error

\* C9 (as claimed): interpret never receives Break or ReturnValue from a
\* top-level statement of a program the resolver accepted.
C9_NoControlSignalAtTopLevel ==
    interp.received \notin {"Break", "ReturnValue"}

\* C15: a call whose number of arguments differs from the arity of the
\* callee returns a runtime error whose message names the expected and the
\* actual count, and leaves every environment and the current environment
\* as they were once the arguments were evaluated: the callee did not run.
C15_ArityMismatchIsErrorWithoutCall ==
    \A c \in interp.calls :
        c.arity # c.got =>
            /\ c.r = "RuntimeError"
            /\ c.message = arity_message(c.arity, c.got)
            /\ c.after = c.before

\* reached: a call with too few arguments returned the error after a call
\* of the same function with the right count ran its body
C15_Witness ==
    /\ \E c \in interp.calls : c.arity > c.got /\ c.r = "RuntimeError"
    /\ \E c \in interp.calls : c.arity = c.got /\ c.r = "Ok" /\ c.after # c.before

\* C18: a `var` statement changes the binding of its name in the current
\* environment, inside a block the block's own, and nothing else: every
\* other binding of every environment, those of the enclosing ones with the
\* same name included, keeps its value; so after the block a read yields
\* the outer value: `var a = 1; { var a = 2; print a; } print a;` prints 2
\* then 1.
C18_VarShadowsWithoutMutating ==
    /\ \A d \in interp.defined :
          /\ DOMAIN d.after = DOMAIN d.before
          /\ \A e \in DOMAIN d.before :
                /\ d.after[e].enclosing = d.before[e].enclosing
                /\ DOMAIN d.after[e].variables =
                      DOMAIN d.before[e].variables
                          \cup (IF e = d.current THEN {d.name} ELSE {})
                /\ \A x \in DOMAIN d.before[e].variables :
                      (e # d.current \/ x # d.name) =>
                          d.after[e].variables[x] = d.before[e].variables[x]
    /\ (program = ShadowBlockProgram /\ pc.at = "done") =>
          interp.out = <<Display(Num(2)), Display(Num(1))>>

\* reached: the shadowing program ran to its end, and a `var` inside a
\* block defined a name that an enclosing environment binds too
C18_Witness ==
    /\ program = ShadowBlockProgram
    /\ pc.at = "done"
    /\ Len(interp.out) = 2
    /\ \E d \in interp.defined :
          /\ d.current # Globals
          /\ d.name \in DOMAIN d.before[d.before[d.current].enclosing].variables

\* the while loops that were left with the counter as it was before them
\* hold when left by a false condition or by Break
WhileExitsBalanced ==
    \A w \in interp.whiles : w.r = "Ok" => w.after = w.before

\* C25 (as claimed): every while loop that is left, by a false condition, by
\* Break, by a Return signal or by a runtime error, leaves `nest` at the
\* value it had before the loop; so the counter is 0 between the statements
\* of the program.
C25_NestCountsRunningLoops ==
    /\ \A w \in interp.whiles : w.r # "Diverges" => w.after = w.before
    /\ pc.at = "interpret" => interp.nest = 0

\* the statement holds a `break` that no while statement of the same
\* function body encloses
RECURSIVE BreakOutsideLoopOfFunction(_, _)
BreakOutsideLoopOfFunction(stmt, in_loop) ==
    CASE stmt.k = "Break" -> ~in_loop
      [] stmt.k = "Block" ->
           \E i \in 1..Len(stmt.statements) :
               BreakOutsideLoopOfFunction(stmt.statements[i], in_loop)
      [] stmt.k = "Function" ->
           \E i \in 1..Len(stmt.body) : BreakOutsideLoopOfFunction(stmt.body[i], FALSE)
      [] stmt.k = "If" ->
           \/ BreakOutsideLoopOfFunction(stmt.then_branch, in_loop)
           \/ (stmt.else_branch # <<>>
                  /\ BreakOutsideLoopOfFunction(stmt.else_branch[1], in_loop))
      [] stmt.k = "While" -> BreakOutsideLoopOfFunction(stmt.body, TRUE)
      [] OTHER -> FALSE

\* C27 (as claimed): once a top-level statement with a `break` that is in no
\* while loop of its own function body has been resolved, the error flag is
\* set, also when the function is declared inside a loop; and no function
\* call returns the Break signal.
C27_BreakCheckedPerFunction ==
    /\ \A i \in 1..Len(program) :
          (ResolvedOk(i) /\ BreakOutsideLoopOfFunction(program[i], FALSE))
              => resolver.has_error
    /\ \A c \in interp.calls : c.r # "Break"

(***************************************************************************)
(* SpecBinary: visit_binary_expr and visit_unary_expr on literal operands. *)
(* The operands are the values a Literal expression can hold; the          *)
(* operators are the token types the parser puts into Binary and Unary.    *)
(***************************************************************************)
\* largest magnitude of the Number operands
MaxNum == 2

\* longest String operand
MaxStrLen == 1

OperandValues ==
    {Num(n) : n \in (-MaxNum)..MaxNum}
        \cup {NumF(F64(1, 2))}
        \cup {Str(s) : s \in UNION {[1..n -> {97, 98}] : n \in 0..MaxStrLen}}
        \cup {Bool(TRUE), Bool(FALSE), Nil}

BinaryOperators ==
    {"Plus", "Minus", "Slash", "Star", "Greater", "GreaterEqual", "Less",
     "LessEqual", "Equal", "BangEqual"}

UnaryOperators == {"Minus", "Bang"}

InitBinary ==
    /\ bin \in [at : {"ready"}, left : OperandValues, right : OperandValues,
                op : BinaryOperators \cup UnaryOperators]
    /\ program = <<>>
    /\ pc = [at |-> "idle", i |-> 0]
    /\ resolver = ResolverNew
    /\ interp = InterpreterNew
    /\ parser = IdleParser
    /\ scanner = IdleScanner
    /\ inst = IdleInst
    /\ envs = IdleEnvs

\* Interpreter::visit_binary_expr with Literal operands
EvalBinary ==
    /\ bin.at = "ready"
    /\ bin.op \in BinaryOperators
    /\ bin' = [at |-> "binary", left |-> bin.left, right |-> bin.right, op |-> bin.op,
               result |-> visit_binary_expr(bin.left, bin.op, bin.right)]
    /\ UNCHANGED <<program, pc, resolver, interp, parser, scanner, inst, envs>>

\* Interpreter::visit_unary_expr with a Literal operand
EvalUnary ==
    /\ bin.at = "ready"
    /\ bin.op \in UnaryOperators
    /\ bin' = [at |-> "unary", left |-> bin.left, right |-> bin.right, op |-> bin.op,
               result |-> visit_unary_expr(bin.op, bin.right)]
    /\ UNCHANGED <<program, pc, resolver, interp, parser, scanner, inst, envs>>

NextBinary == EvalBinary \/ EvalUnary

SpecBinary == InitBinary /\ [][NextBinary]_vars

\* C2 (as claimed): `/` on two Numbers with a zero right operand returns a
\* runtime error, and no binary expression returns the ArithmeticError value.
C2_DivisionByZeroIsError ==
    bin.at = "binary" =>
        /\ (bin.op = "Slash" /\ bin.left.t = "Num" /\ bin.right.t = "Num"
                /\ bin.right.f = F64(0, 1))
               => bin.result.r = "RuntimeError"
        /\ bin.result.r = "Ok" => bin.result.v.t # "ArithmeticError"

\* C19 (as claimed): `nil == v` and `v == nil` evaluate without error, to
\* true exactly when v is nil, and `!=` to the negation, on whichever side
\* nil is.
C19_NilEqualityIsSymmetric ==
    (bin.at = "binary" /\ bin.op \in {"Equal", "BangEqual"}
        /\ (bin.left = Nil \/ bin.right = Nil)) =>
        /\ bin.result.r = "Ok"
        /\ bin.result.v = Bool((bin.left = Nil /\ bin.right = Nil) <=> bin.op = "Equal")

\* the combinations of operand types and operator that the evaluation rules
\* give a value to
Supported(left, op, right) ==
    \/ left = "Num" /\ right = "Num"
    \/ left = "Str" /\ right = "Str" /\ op \notin {"Minus", "Slash", "Star"}
    \/ {left, right} = {"Str", "Num"} /\ op = "Plus"
    \/ left = "Bool" /\ right = "Bool" /\ op \in {"Equal", "BangEqual"}

\* C20: on operands that are not nil, visit_binary_expr returns a value for
\* the supported combinations of operand types and operator, and an error,
\* never a value, for every other combination.
C20_UnsupportedOperandsAreErrors ==
    (bin.at = "binary" /\ bin.left # Nil /\ bin.right # Nil) =>
        IF Supported(bin.left.t, bin.op, bin.right.t)
        THEN bin.result.r = "Ok"
        ELSE bin.result.r \in {"Error", "RuntimeError"}

\* reached: a String compared with a Number for equality returned an error
C20_Witness ==
    /\ bin.at = "binary"
    /\ bin.left.t = "Str"
    /\ bin.right.t = "Num"
    /\ bin.op = "Equal"
    /\ bin.result.r = "Error"

\* unary `-` on a Number n returns the Number -n
UnaryMinusNegatesNumbers ==
    (bin.at = "unary" /\ bin.op = "Minus" /\ bin.right.t = "Num") =>
        /\ bin.result.r = "Ok"
        /\ bin.result.v = NumF([n |-> 0 - bin.right.f.n, d |-> bin.right.f.d])

\* C29 (as claimed): unary `-` on a Number n returns -n, and on an operand
\* that is not a Number it returns a runtime error and never a value.
C29_UnaryMinusOnlyOnNumbers ==
    /\ UnaryMinusNegatesNumbers
    /\ (bin.at = "unary" /\ bin.op = "Minus" /\ bin.right.t # "Num") =>
          bin.result.r = "RuntimeError"

(***************************************************************************)
(* Parser (parser.rs).  P is the record of its fields (tokens, current,    *)
(* has_error) with two additions: `panicked`, set when tokens.get(..)      *)
(* .unwrap() meets an index outside the tokens, and `log`, the parse       *)
(* errors built and the calls of synchronize during one call of            *)
(* declaration from parse.  `current` counts from 0 as in the source, so   *)
(* peek is tokens[current + 1] here.  Every parsing method returns         *)
(* [P, r, v]: r is "Ok" or "Err", v the node or the ParseError; `?` is the *)
(* early return on "Err".  The id of a Variable or Assign node is the      *)
(* position of the token that made it.                                     *)
(***************************************************************************)
Token(ttype, lexeme, literal) == [ttype |-> ttype, lexeme |-> lexeme, literal |-> literal]

\* Token::eof
Eof == Token("Eof", "", <<>>)

\* what no token is: the None that tokens.get(..) returns outside the tokens
NoToken == Token("None", "", <<>>)

Get(object, name) == [k |-> "Get", object |-> object, name |-> name]

Set(object, name, value) == [k |-> "Set", object |-> object, name |-> name, value |-> value]

Super(keyword, method) == [k |-> "Super", keyword |-> keyword, method |-> method]

This(id) == [k |-> "This", id |-> id]

ClassStmt(name, superclass, methods) ==
    [k |-> "Class", name |-> name, superclass |-> superclass, methods |-> methods]

\* Parser::new
ParserNew(tokens) ==
    [tokens |-> tokens, current |-> 0, has_error |-> FALSE, panicked |-> FALSE, log |-> <<>>]

POk(P, v) == [P |-> P, r |-> "Ok", v |-> v]

PErr(P, e) == [P |-> P, r |-> "Err", v |-> e]

\* LoxResult::parse_error
parse_error(token, message) == [token |-> token, message |-> message]

\* tokens.get(i) is Some
InRange(P, i) == i >= 0 /\ i < Len(P.tokens)

\* Option::unwrap of tokens.get(i): a panic when it is None
unwrap(P, i) == [P EXCEPT !.panicked = @ \/ ~InRange(P, i)]

\* Parser::peek
peek(P) == IF InRange(P, P.current) THEN P.tokens[P.current + 1] ELSE NoToken

\* Parser::previous
previous(P) == IF InRange(P, P.current - 1) THEN P.tokens[P.current] ELSE NoToken

\* Parser::is_at_end
is_at_end(P) == peek(P).ttype = "Eof"

\* Parser::check
check(ttype, P) == IF is_at_end(P) THEN FALSE ELSE peek(P).ttype = ttype

\* Parser::advance: the parser after it; the token it returns is previous
advance(P) ==
    LET P1 == unwrap(P, P.current)
        P2 == IF ~is_at_end(P1) THEN [P1 EXCEPT !.current = @ + 1] ELSE P1
    IN  unwrap(P2, P2.current - 1)

\* Parser::is_match: the parser after it and the bool it returns
is_match(types, P) ==
    IF \E t \in types : check(t, P)
    THEN [P |-> advance(P), b |-> TRUE]
    ELSE [P |-> unwrap(P, P.current), b |-> FALSE]

\* Parser::error: sets has_error and builds the ParseError
error(token, message, P) ==
    [P |-> [P EXCEPT !.has_error = TRUE,
                     !.log = Append(@, [ev |-> "error", at |-> P.current, message |-> message])],
     e |-> parse_error(token, message)]

\* Parser::consume
consume(ttype, message, P) ==
    IF check(ttype, P)
    THEN LET P1 == advance(P) IN POk(P1, previous(P1))
    ELSE LET e == error(peek(P), message, unwrap(P, P.current)) IN PErr(e.P, e.e)

\* the keywords synchronize stops before
SyncKeywords == {"Class", "Fun", "Var", "For", "If", "While", "Print", "Return"}

\* Parser::synchronize, the loop after the first advance
RECURSIVE synchronize_loop(_)
synchronize_loop(P) ==
    IF P.panicked \/ ~InRange(P, P.current) THEN unwrap(P, P.current)
    ELSE IF is_at_end(P) THEN P
    ELSE IF ~InRange(P, P.current - 1) THEN unwrap(P, P.current - 1)
    ELSE IF previous(P).ttype = "SemiColon" THEN P
    ELSE IF peek(P).ttype \in SyncKeywords THEN P
    ELSE synchronize_loop(advance(P))

\* Parser::synchronize
synchronize(P) ==
    LET P1 == synchronize_loop(advance(P))
    IN  [P1 EXCEPT !.log = Append(@, [ev |-> "sync", at |-> P.current, to |-> P1.current])]

\* the most parameters of a function, and the most arguments of a call
MaxParameters == 255

MaxArguments == 255

\* Some(..) around the value of a result
Some(res) == IF res.r # "Ok" THEN res ELSE POk(res.P, <<res.v>>)

RECURSIVE declaration(_)
RECURSIVE statement(_)
RECURSIVE block_loop(_, _)
RECURSIVE assignment(_)
RECURSIVE or_loop(_, _)
RECURSIVE and_loop(_, _)
RECURSIVE equality_loop(_, _)
RECURSIVE comparison_loop(_, _)
RECURSIVE term_loop(_, _)
RECURSIVE term_loop_flat(_, _)
RECURSIVE factor_loop(_, _)
RECURSIVE unary(_)
RECURSIVE call_loop(_, _)
RECURSIVE arguments_loop(_, _)
RECURSIVE parameters_loop(_, _)
RECURSIVE methods_loop(_, _)

\* Parser::expression
expression(P) == assignment(P)

\* Parser::primary
primary(P) ==
    LET false == is_match({"False"}, P)
        true == is_match({"True"}, P)
        nil == is_match({"Nil"}, P)
        literal == is_match({"String", "Number"}, P)
        super == is_match({"Super"}, P)
        this == is_match({"This"}, P)
        identifier == is_match({"Identifier"}, P)
        paren == is_match({"LeftParen"}, P)
    IN  IF false.b THEN POk(false.P, Literal(Bool(FALSE)))
        ELSE IF true.b THEN POk(true.P, Literal(Bool(TRUE)))
        ELSE IF nil.b THEN POk(nil.P, Literal(Nil))
        ELSE IF literal.b THEN POk(literal.P, Literal(previous(literal.P).literal[1]))
        ELSE IF super.b
        THEN Bind(consume("Dot", "Expect '.' after 'super'.", super.P), LAMBDA dot :
             Bind(consume("Dot", "Expect superclass method name.", dot.P), LAMBDA method :
             POk(method.P, Super(super.P.current, method.v.lexeme))))
        ELSE IF this.b THEN POk(this.P, This(this.P.current))
        ELSE IF identifier.b
        THEN POk(identifier.P, Variable(previous(identifier.P).lexeme, identifier.P.current))
        ELSE IF paren.b
        THEN Bind(expression(paren.P), LAMBDA expr :
             Bind(consume("RightParen", "Expect ')' after expression.", expr.P), LAMBDA close :
             POk(close.P, Grouping(expr.v))))
        ELSE LET P1 == unwrap(P, P.current)
             IN  PErr([P1 EXCEPT !.log = Append(@, [ev |-> "error", at |-> P.current,
                                                    message |-> "Expect expression."])],
                      parse_error(peek(P), "Expect expression."))

\* the state of a loop over a list: the parser, the result so far, and
\* `more` while the loop has not ended
Turn(P, r, v, more) == [P |-> P, r |-> r, v |-> v, more |-> more]

\* Parser::finish_call, one turn of its loop once the argument `a` is
\* parsed: the push, then the comma that announces the next argument
after_argument(arguments, a) ==
    IF a.r # "Ok" THEN Turn(a.P, a.r, a.v, FALSE)
    ELSE LET args == Append(arguments, a.v)
             comma == is_match({"Comma"}, a.P)
             e == error(peek(comma.P), "Can't have more than 255 arguments.", comma.P)
         IN  IF ~comma.b THEN Turn(comma.P, "Ok", args, FALSE)
             ELSE IF Len(args) >= MaxArguments THEN Turn(e.P, "Err", e.e, FALSE)
             ELSE Turn(comma.P, "Ok", args, TRUE)

\* Parser::finish_call, the loop over the arguments: at most n turns from
\* the state st, taken by halves so that a long list is no deep recursion
arguments_loop(st, n) ==
    IF ~st.more THEN st
    ELSE IF n <= 1 THEN after_argument(st.v, expression(st.P))
    ELSE arguments_loop(arguments_loop(st, n \div 2), n - n \div 2)

\* Parser::finish_call
finish_call(callee, P) ==
    Bind(IF check("RightParen", P) THEN POk(P, <<>>)
         ELSE arguments_loop(Turn(P, "Ok", <<>>, TRUE), Len(P.tokens)),
         LAMBDA arguments :
    Bind(consume("RightParen", "Expect ')' after arguments", arguments.P), LAMBDA paren :
    POk(paren.P, Call(callee, arguments.v))))

\* Parser::call, the loop over `(` and `.`
call_loop(expr, P) ==
    LET paren == is_match({"LeftParen"}, P)
        dot == is_match({"Dot"}, P)
    IN  IF paren.b
        THEN Bind(finish_call(expr, paren.P), LAMBDA c : call_loop(c.v, c.P))
        ELSE IF dot.b
        THEN Bind(consume("Identifier", "Expect property name after '.'.", dot.P),
                  LAMBDA name : call_loop(Get(expr, name.v.lexeme), name.P))
        ELSE POk(dot.P, expr)

\* Parser::call
call(P) == Bind(primary(P), LAMBDA expr : call_loop(expr.v, expr.P))

\* Parser::unary
unary(P) ==
    LET m == is_match({"Bang", "Minus"}, P)
    IN  IF m.b
        THEN Bind(unary(m.P), LAMBDA right :
                  POk(right.P, Unary(previous(m.P).ttype, right.v)))
        ELSE call(m.P)

\* Parser::factor, its loop: `left` is empty before the first operand and
\* holds the expression so far and the operator matched after it otherwise
factor_loop(left, P) ==
    Bind(unary(P), LAMBDA right :
        LET expr == IF left = <<>> THEN right.v ELSE Binary(left[1], left[2], right.v)
            m == is_match({"Slash", "Star"}, right.P)
        IN  IF m.b THEN factor_loop(<<expr, previous(m.P).ttype>>, m.P)
            ELSE POk(m.P, expr))

\* Parser::factor
factor(P) == factor_loop(<<>>, P)

\* term with `*` and `/` taken at its own level, on the operands of factor
term_loop_flat(left, P) ==
    Bind(unary(P), LAMBDA right :
        LET expr == IF left = <<>> THEN right.v ELSE Binary(left[1], left[2], right.v)
            m == is_match({"Minus", "Plus", "Slash", "Star"}, right.P)
        IN  IF m.b THEN term_loop_flat(<<expr, previous(m.P).ttype>>, m.P)
            ELSE POk(m.P, expr))

\* Parser::term, its loop
term_loop(left, P) ==
    Bind(factor(P), LAMBDA right :
        LET expr == IF left = <<>> THEN right.v ELSE Binary(left[1], left[2], right.v)
            m == is_match({"Minus", "Plus"}, right.P)
        IN  IF m.b THEN term_loop(<<expr, previous(m.P).ttype>>, m.P)
            ELSE POk(m.P, expr))

\* Parser::term
term(P) == term_loop(<<>>, P)

\* Parser::comparison, its loop
comparison_loop(left, P) ==
    Bind(term(P), LAMBDA right :
        LET expr == IF left = <<>> THEN right.v ELSE Binary(left[1], left[2], right.v)
            m == is_match({"Greater", "GreaterEqual", "Less", "LessEqual"}, right.P)
        IN  IF m.b THEN comparison_loop(<<expr, previous(m.P).ttype>>, m.P)
            ELSE POk(m.P, expr))

\* Parser::comparison
comparison(P) == comparison_loop(<<>>, P)

\* Parser::equality, its loop
equality_loop(left, P) ==
    Bind(comparison(P), LAMBDA right :
        LET expr == IF left = <<>> THEN right.v ELSE Binary(left[1], left[2], right.v)
            m == is_match({"BangEqual", "Equal"}, right.P)
        IN  IF m.b THEN equality_loop(<<expr, previous(m.P).ttype>>, m.P)
            ELSE POk(m.P, expr))

\* Parser::equality
equality(P) == equality_loop(<<>>, P)

\* Parser::and, its loop
and_loop(left, P) ==
    Bind(equality(P), LAMBDA right :
        LET expr == IF left = <<>> THEN right.v ELSE Logical(left[1], left[2], right.v)
            m == is_match({"And"}, right.P)
        IN  IF m.b THEN and_loop(<<expr, previous(m.P).ttype>>, m.P)
            ELSE POk(m.P, expr))

\* Parser::and
and(P) == and_loop(<<>>, P)

\* Parser::or, its loop
or_loop(left, P) ==
    Bind(and(P), LAMBDA right :
        LET expr == IF left = <<>> THEN right.v ELSE Logical(left[1], left[2], right.v)
            m == is_match({"Or"}, right.P)
        IN  IF m.b THEN or_loop(<<expr, previous(m.P).ttype>>, m.P)
            ELSE POk(m.P, expr))

\* Parser::or
or(P) == or_loop(<<>>, P)

\* Parser::assignment
assignment(P) ==
    Bind(or(P), LAMBDA expr :
        LET m == is_match({"Assign"}, expr.P)
            equals == previous(m.P)
        IN  IF ~m.b THEN POk(m.P, expr.v)
            ELSE Bind(assignment(m.P), LAMBDA value :
                 IF expr.v.k = "Variable"
                 THEN POk(value.P, Assign(expr.v.name, value.v, m.P.current))
                 ELSE IF expr.v.k = "Get"
                 THEN POk(value.P, Set(expr.v.object, expr.v.name, value.v))
                 ELSE POk(error(equals, "Invalid assignment target.", value.P).P, expr.v)))

\* Parser::expression_statement
expression_statement(P) ==
    Bind(expression(P), LAMBDA value :
    Bind(consume("SemiColon", "Expect ';' after expression.", value.P), LAMBDA semi :
    POk(semi.P, ExpressionStmt(value.v))))

\* Parser::print_statement
print_statement(P) ==
    Bind(expression(P), LAMBDA value :
    Bind(consume("SemiColon", "Expect ';' after value.", value.P), LAMBDA semi :
    POk(semi.P, PrintStmt(value.v))))

\* Parser::return_statement
return_statement(P) ==
    Bind(IF check("SemiColon", P) THEN POk(P, <<>>) ELSE Some(expression(P)), LAMBDA value :
    Bind(consume("SemiColon", "Expect ';' after return value.", value.P), LAMBDA semi :
    POk(semi.P, ReturnStmt(value.v))))

\* Parser::var_declaration
var_declaration(P) ==
    Bind(consume("Identifier", "Expect variable name.", P), LAMBDA name :
    Bind(LET m == is_match({"Assign"}, name.P)
         IN  IF m.b THEN Some(expression(m.P)) ELSE POk(m.P, <<>>), LAMBDA initializer :
    Bind(consume("SemiColon", "Expect ';' after variable declaration.", initializer.P),
         LAMBDA semi :
    POk(semi.P, VarStmt(name.v.lexeme, initializer.v)))))

\* Parser::while_statement
while_statement(P) ==
    Bind(consume("LeftParen", "Expect '(' after 'while'.", P), LAMBDA open :
    Bind(expression(open.P), LAMBDA condition :
    Bind(consume("RightParen", "Expect ')' after 'while'.", condition.P), LAMBDA close :
    Bind(statement(close.P), LAMBDA body :
    POk(body.P, WhileStmt(condition.v, body.v))))))

\* Parser::if_statement
if_statement(P) ==
    Bind(consume("LeftParen", "Expect '(' after 'if'.", P), LAMBDA open :
    Bind(expression(open.P), LAMBDA condition :
    Bind(consume("RightParen", "Expect ')' after 'if'.", condition.P), LAMBDA close :
    Bind(statement(close.P), LAMBDA then_branch :
    Bind(LET m == is_match({"Else"}, then_branch.P)
         IN  IF m.b THEN Some(statement(m.P)) ELSE POk(m.P, <<>>), LAMBDA else_branch :
    POk(else_branch.P, IfStmt(condition.v, then_branch.v, else_branch.v)))))))

\* Parser::for_statement: a for loop becomes a while loop in blocks
for_statement(P) ==
    Bind(consume("LeftParen", "Expect '(' after 'for'.", P), LAMBDA open :
    Bind(LET semi == is_match({"SemiColon"}, open.P)
             var == is_match({"Var"}, open.P)
         IN  IF semi.b THEN POk(semi.P, <<>>)
             ELSE IF var.b THEN Some(var_declaration(var.P))
             ELSE Some(expression_statement(var.P)), LAMBDA initializer :
    Bind(IF check("SemiColon", initializer.P)
         THEN POk(initializer.P, Literal(Bool(TRUE)))
         ELSE expression(initializer.P), LAMBDA condition :
    Bind(consume("SemiColon", "Expect ';' after loop condition.", condition.P), LAMBDA semi2 :
    Bind(IF check("RightParen", semi2.P) THEN POk(semi2.P, <<>>)
         ELSE Some(expression(semi2.P)), LAMBDA increment :
    Bind(consume("RightParen", "Expect ')' after loop condition.", increment.P), LAMBDA close :
    Bind(statement(close.P), LAMBDA body :
        LET body1 == IF increment.v # <<>>
                     THEN BlockStmt(<<body.v, ExpressionStmt(increment.v[1])>>)
                     ELSE body.v
            body2 == WhileStmt(condition.v, body1)
            body3 == IF initializer.v # <<>>
                     THEN BlockStmt(<<initializer.v[1], body2>>)
                     ELSE body2
        IN  POk(body.P, body3))))))))

\* Parser::block, its loop; each statement of a block is a declaration, so a
\* failing one has synchronized before `?` returns its error
block_loop(statements, P) ==
    IF ~check("RightBrace", P) /\ ~is_at_end(P)
    THEN Bind(declaration(P), LAMBDA d : block_loop(Append(statements, d.v), d.P))
    ELSE POk(P, statements)

\* Parser::block
block(P) ==
    Bind(block_loop(<<>>, P), LAMBDA statements :
    Bind(consume("RightBrace", "Expect '}' after block.", statements.P), LAMBDA close :
    POk(close.P, statements.v)))

\* Parser::statement
statement(P) ==
    LET break == is_match({"Break"}, P)
        for == is_match({"For"}, P)
        if == is_match({"If"}, P)
        print == is_match({"Print"}, P)
        return == is_match({"Return"}, P)
        while == is_match({"While"}, P)
        brace == is_match({"LeftBrace"}, P)
    IN  IF break.b
        THEN Bind(consume("SemiColon", "Expect ';' after 'break'.", break.P), LAMBDA semi :
                  POk(semi.P, BreakStmt))
        ELSE IF for.b THEN for_statement(for.P)
        ELSE IF if.b THEN if_statement(if.P)
        ELSE IF print.b THEN print_statement(print.P)
        ELSE IF return.b THEN return_statement(return.P)
        ELSE IF while.b THEN while_statement(while.P)
        ELSE IF brace.b
        THEN Bind(block(brace.P), LAMBDA statements :
                  POk(statements.P, BlockStmt(statements.v)))
        ELSE expression_statement(brace.P)

\* Parser::function, one turn of its loop once the parameter `name` is
\* consumed: the push, the comma that announces the next parameter, and the
\* check of the limit before it
after_parameter(params, name) ==
    IF name.r # "Ok" THEN Turn(name.P, name.r, name.v, FALSE)
    ELSE LET ps == Append(params, name.v.lexeme)
             comma == is_match({"Comma"}, name.P)
             P1 == IF Len(ps) >= MaxParameters /\ ~comma.P.has_error
                   THEN error(peek(comma.P), "Can't have more than 255 parameters.", comma.P).P
                   ELSE comma.P
         IN  IF ~comma.b THEN Turn(comma.P, "Ok", ps, FALSE) ELSE Turn(P1, "Ok", ps, TRUE)

\* Parser::function, the loop over the parameters: at most n turns from the
\* state st, taken by halves
parameters_loop(st, n) ==
    IF ~st.more THEN st
    ELSE IF n <= 1
    THEN after_parameter(st.v, consume("Identifier", "Expect paramter name.", st.P))
    ELSE parameters_loop(parameters_loop(st, n \div 2), n - n \div 2)

\* Parser::function; kind is "function" or "method"
function(kind, P) ==
    Bind(consume("Identifier",
                 IF kind = "method" THEN "Expect method name."
                 ELSE "Expect function name.", P), LAMBDA name :
    Bind(consume("LeftParen",
                 IF kind = "method" THEN "Expect '(' after method name."
                 ELSE "Expect '(' after function name.", name.P), LAMBDA open :
    Bind(IF check("RightParen", open.P) THEN POk(open.P, <<>>)
         ELSE parameters_loop(Turn(open.P, "Ok", <<>>, TRUE), Len(open.P.tokens)),
         LAMBDA params :
    Bind(consume("RightParen", "Expect ')' after parameters.", params.P), LAMBDA close :
    Bind(consume("LeftBrace",
                 IF kind = "method" THEN "Expect '{' after method body."
                 ELSE "Expect '{' after function body.", close.P), LAMBDA brace :
    Bind(block(brace.P), LAMBDA body :
    POk(body.P, FunctionStmt(name.v.lexeme, params.v, body.v))))))))

\* Parser::class_declaration, the loop over the methods
methods_loop(methods, P) ==
    IF ~check("RightBrace", P) /\ ~is_at_end(P)
    THEN Bind(function("method", P), LAMBDA f : methods_loop(Append(methods, f.v), f.P))
    ELSE POk(P, methods)

\* Parser::class_declaration
class_declaration(P) ==
    Bind(consume("Identifier", "Expect a class name.", P), LAMBDA name :
    Bind(LET less == is_match({"Less"}, name.P)
         IN  IF ~less.b THEN POk(less.P, <<>>)
             ELSE Bind(consume("Identifier", "Expect super class name.", less.P), LAMBDA super :
                  POk(super.P, <<Variable(previous(super.P).lexeme, super.P.current)>>)),
         LAMBDA superclass :
    Bind(consume("LeftBrace", "Expect '{' before class body.", superclass.P), LAMBDA open :
    Bind(methods_loop(<<>>, open.P), LAMBDA methods :
    Bind(consume("RightBrace", "Expect '}' before class body.", methods.P), LAMBDA close :
    POk(close.P, ClassStmt(name.v.lexeme, superclass.v, methods.v)))))))

\* Parser::declaration, its end: synchronize when the result is an Err
synchronize_if_err(result) ==
    IF result.r # "Ok" THEN [result EXCEPT !.P = synchronize(@)] ELSE result

\* Parser::declaration
declaration(P) ==
    LET class == is_match({"Class"}, P)
        fun == is_match({"Fun"}, P)
        var == is_match({"Var"}, P)
    IN  synchronize_if_err(IF class.b THEN class_declaration(class.P)
                           ELSE IF fun.b THEN function("function", fun.P)
                           ELSE IF var.b THEN var_declaration(var.P)
                           ELSE statement(var.P))

\* Parser::success
success(P) == ~P.has_error

(***************************************************************************)
(* SpecParser: Parser::parse over a token sequence.  The sequences are up  *)
(* to MaxChunks chunks of the pool below, single tokens and phrases, with  *)
(* the EOF token the scanner always ends its tokens with.  One action is   *)
(* one iteration of the loop of parse.                                     *)
(***************************************************************************)
\* a token whose lexeme is fixed by its type
Fixed(ttype) ==
    Token(ttype,
          CASE ttype = "LeftParen" -> "("  [] ttype = "RightParen" -> ")"
            [] ttype = "LeftBrace" -> "{"  [] ttype = "RightBrace" -> "}"
            [] ttype = "Comma" -> ","      [] ttype = "Dot" -> "."
            [] ttype = "Minus" -> "-"      [] ttype = "Plus" -> "+"
            [] ttype = "SemiColon" -> ";"  [] ttype = "Slash" -> "/"
            [] ttype = "Star" -> "*"       [] ttype = "Bang" -> "!"
            [] ttype = "BangEqual" -> "!=" [] ttype = "Assign" -> "="
            [] ttype = "Equal" -> "=="     [] ttype = "Greater" -> ">"
            [] ttype = "GreaterEqual" -> ">=" [] ttype = "Less" -> "<"
            [] ttype = "LessEqual" -> "<=" [] ttype = "And" -> "and"
            [] ttype = "Class" -> "class"  [] ttype = "Else" -> "else"
            [] ttype = "False" -> "false"  [] ttype = "Fun" -> "fun"
            [] ttype = "For" -> "for"      [] ttype = "If" -> "if"
            [] ttype = "Nil" -> "nil"      [] ttype = "Or" -> "or"
            [] ttype = "Print" -> "print"  [] ttype = "Return" -> "return"
            [] ttype = "Super" -> "super"  [] ttype = "This" -> "this"
            [] ttype = "True" -> "true"    [] ttype = "Var" -> "var"
            [] ttype = "While" -> "while"  [] ttype = "Break" -> "break",
          <<>>)

Identifier(name) == Token("Identifier", name, <<>>)

\* a Number token of a one-digit number
Number(n) == Token("Number", CASE n = 0 -> "0" [] n = 1 -> "1" [] n = 2 -> "2"
                                [] n = 3 -> "3" [] n = 4 -> "4" [] n = 5 -> "5"
                                [] n = 6 -> "6" [] n = 7 -> "7",
                   <<Num(n)>>)

\* the String token of "s"
StringS == Token("String", "\"s\"", <<Str(<<115>>)>>)

RECURSIVE Fixeds(_)
Fixeds(ttypes) ==
    IF ttypes = <<>> THEN <<>> ELSE <<Fixed(Head(ttypes))>> \o Fixeds(Tail(ttypes))

\* the tokens of `1 + 2 * 3 ;`
OnePlusTwoTimesThree ==
    <<Number(1), Fixed("Plus"), Number(2), Fixed("Star"), Number(3), Fixed("SemiColon")>>

Chunks ==
    LET a == <<Identifier("a")>>
        b == <<Identifier("b")>>
        i == <<Identifier("i")>>
        n1 == <<Number(1)>>
        n2 == <<Number(2)>>
        semi == <<Fixed("SemiColon")>>
        F(ttypes) == Fixeds(ttypes)
    IN  << \* single tokens
           semi, F(<<"RightBrace">>), F(<<"LeftBrace">>), F(<<"LeftParen">>),
           F(<<"RightParen">>), F(<<"Assign">>), F(<<"Plus">>), F(<<"Dot">>),
           n1, a, F(<<"Print">>), F(<<"Var">>), F(<<"Return">>), F(<<"Class">>),
           F(<<"Fun">>), F(<<"For">>), F(<<"If">>), F(<<"While">>), F(<<"Else">>),
           \* print 1 ;
           F(<<"Print">>) \o n1 \o semi,
           \* var a = 1 ;
           F(<<"Var">>) \o a \o F(<<"Assign">>) \o n1 \o semi,
           \* var a ;
           F(<<"Var">>) \o a \o semi,
           \* a = b = 1 ;
           a \o F(<<"Assign">>) \o b \o F(<<"Assign">>) \o n1 \o semi,
           \* 1 = 2 ;
           n1 \o F(<<"Assign">>) \o n2 \o semi,
           \* a . b = b ( 1 , 2 ) . a ;
           a \o F(<<"Dot">>) \o b \o F(<<"Assign">>) \o b \o F(<<"LeftParen">>) \o n1
             \o F(<<"Comma">>) \o n2 \o F(<<"RightParen", "Dot">>) \o a \o semi,
           \* class a < b { i ( ) { } }
           F(<<"Class">>) \o a \o F(<<"Less">>) \o b \o F(<<"LeftBrace">>) \o i
             \o F(<<"LeftParen", "RightParen", "LeftBrace", "RightBrace", "RightBrace">>),
           \* fun a ( b , i ) { return b ; }
           F(<<"Fun">>) \o a \o F(<<"LeftParen">>) \o b \o F(<<"Comma">>) \o i
             \o F(<<"RightParen", "LeftBrace", "Return">>) \o b \o semi \o F(<<"RightBrace">>),
           \* for ( var i = 1 ; i < 2 ; i = i + 1 ) print i ;
           F(<<"For", "LeftParen", "Var">>) \o i \o F(<<"Assign">>) \o n1 \o semi \o i
             \o F(<<"Less">>) \o n2 \o semi \o i \o F(<<"Assign">>) \o i \o F(<<"Plus">>)
             \o n1 \o F(<<"RightParen", "Print">>) \o i \o semi,
           \* for ( ; ; ) break ;   (with a Break token)
           F(<<"For", "LeftParen", "SemiColon", "SemiColon", "RightParen", "Break", "SemiColon">>),
           \* if ( a ) print 1 ; else return ;
           F(<<"If", "LeftParen">>) \o a \o F(<<"RightParen", "Print">>) \o n1 \o semi
             \o F(<<"Else", "Return">>) \o semi,
           \* while ( a ) { a ; }
           F(<<"While", "LeftParen">>) \o a \o F(<<"RightParen", "LeftBrace">>) \o a \o semi
             \o F(<<"RightBrace">>),
           \* super . a ;
           F(<<"Super", "Dot">>) \o a \o semi,
           \* super . . ;
           F(<<"Super", "Dot", "Dot", "SemiColon">>),
           \* this . a ;
           F(<<"This", "Dot">>) \o a \o semi,
           \* - ! 1 * 2 + 1 < 2 == 1 and 2 or 1 ;
           F(<<"Minus", "Bang">>) \o n1 \o F(<<"Star">>) \o n2 \o F(<<"Plus">>) \o n1
             \o F(<<"Less">>) \o n2 \o F(<<"Equal">>) \o n1 \o F(<<"And">>) \o n2
             \o F(<<"Or">>) \o n1 \o semi,
           \* ( 1 - 2 ) / 1 > 2 >= 1 <= 2 != "s" ;
           F(<<"LeftParen">>) \o n1 \o F(<<"Minus">>) \o n2 \o F(<<"RightParen", "Slash">>)
             \o n1 \o F(<<"Greater">>) \o n2 \o F(<<"GreaterEqual">>) \o n1
             \o F(<<"LessEqual">>) \o n2 \o F(<<"BangEqual">>) \o <<StringS>> \o semi,
           \* print nil == true or false ;
           F(<<"Print", "Nil", "Equal", "True", "Or", "False", "SemiColon">>),
           \* { + ; print 1 ; print 2 ; }
           F(<<"LeftBrace", "Plus", "SemiColon", "Print">>) \o n1 \o semi \o F(<<"Print">>)
             \o n2 \o semi \o F(<<"RightBrace">>),
           \* 1 + 2 * 3 ;
           OnePlusTwoTimesThree,
           \* 1 - 2 - 3 ;
           n1 \o F(<<"Minus">>) \o n2 \o F(<<"Minus">>) \o <<Number(3)>> \o semi,
           \* a = 1 or 2 and 1 == 2 < 1 + 2 * - a ( ) ;
           a \o F(<<"Assign">>) \o n1 \o F(<<"Or">>) \o n2 \o F(<<"And">>) \o n1
             \o F(<<"Equal">>) \o n2 \o F(<<"Less">>) \o n1 \o F(<<"Plus">>) \o n2
             \o F(<<"Star", "Minus">>) \o a \o F(<<"LeftParen", "RightParen">>) \o semi
        >>

RECURSIVE Flatten(_)
Flatten(chunks) ==
    IF chunks = <<>> THEN <<>> ELSE Chunks[Head(chunks)] \o Flatten(Tail(chunks))

\* n times the token `token`, each but the last followed by a comma
Listed(token, n) ==
    [i \in 1..(2 * n - 1) |-> IF i % 2 = 1 THEN token ELSE Fixed("Comma")]

\* fun a ( b , .. , b ) { }  with n parameters
FunctionOf(n) ==
    <<Fixed("Fun"), Identifier("a"), Fixed("LeftParen")>> \o Listed(Identifier("b"), n)
        \o <<Fixed("RightParen"), Fixed("LeftBrace"), Fixed("RightBrace")>>

\* a ( 1 , .. , 1 ) ;  with n arguments
CallOf(n) ==
    <<Identifier("a"), Fixed("LeftParen")>> \o Listed(Number(1), n)
        \o <<Fixed("RightParen"), Fixed("SemiColon")>>

\* the inputs with parameter and argument lists at and over the limits
LongSequences ==
    LET print == <<Fixed("Print"), Number(1), Fixed("SemiColon")>>
        invalid == <<Number(1), Fixed("Assign"), Number(2), Fixed("SemiColon")>>
    IN  {FunctionOf(MaxParameters) \o print, FunctionOf(MaxParameters + 1) \o print,
         invalid \o FunctionOf(MaxParameters + 1),
         CallOf(MaxArguments) \o print, CallOf(MaxArguments + 1) \o print}

TokenSequences ==
    {Flatten(c) \o <<Eof>> : c \in UNION {[1..n -> DOMAIN Chunks] : n \in 0..MaxChunks}}
        \cup {tokens \o <<Eof>> : tokens \in LongSequences}

\* no iteration of the loop of parse has happened yet
NoIteration == [start |-> 0, end |-> 0, r |-> "None", log |-> <<>>]

InitParser ==
    /\ parser \in {[at |-> "parsing", P |-> ParserNew(tokens), statements |-> <<>>,
                    reported |-> <<>>, success |-> TRUE, last |-> NoIteration]
                   : tokens \in TokenSequences}
    /\ program = <<>>
    /\ pc = [at |-> "idle", i |-> 0]
    /\ resolver = ResolverNew
    /\ interp = InterpreterNew
    /\ bin = IdleBin
    /\ scanner = IdleScanner
    /\ inst = IdleInst
    /\ envs = IdleEnvs

\* Parser::parse, the body of its loop: the declaration `dec` is pushed to
\* the statements or its error is reported; a panic ends the parse
parse_loop(p, dec) ==
    IF dec.P.panicked
    THEN [p EXCEPT !.at = "panicked", !.P = dec.P]
    ELSE [p EXCEPT !.P = dec.P,
                   !.statements = IF dec.r = "Ok" THEN Append(@, dec.v) ELSE @,
                   !.reported = IF dec.r = "Ok" THEN @ ELSE Append(@, dec.v),
                   !.last = [start |-> p.P.current, end |-> dec.P.current,
                             r |-> dec.r, log |-> dec.P.log]]

\* Parser::parse, one iteration of its loop
ParseDeclaration ==
    /\ parser.at = "parsing"
    /\ ~is_at_end(parser.P)
    /\ parser' = parse_loop(parser, declaration([parser.P EXCEPT !.log = <<>>]))
    /\ UNCHANGED <<program, pc, resolver, interp, bin, scanner, inst, envs>>

\* Parser::parse returns its statements; main.rs then asks success()
ParseReturn ==
    /\ parser.at = "parsing"
    /\ is_at_end(parser.P)
    /\ parser' = [parser EXCEPT !.at = "done", !.success = success(parser.P)]
    /\ UNCHANGED <<program, pc, resolver, interp, bin, scanner, inst, envs>>

NextParser == ParseDeclaration \/ ParseReturn

SpecParser == InitParser /\ [][NextParser]_vars

(***************************************************************************)
(* Properties of SpecParser.                                               *)
(***************************************************************************)
\* the calls of synchronize in the last iteration of the loop of parse
Syncs == SelectSeq(parser.last.log, LAMBDA e : e.ev = "sync")

\* position p (a value of `current`) is where synchronize may stop: just
\* after a `;`, just before a keyword that starts a declaration, or at EOF
Boundary(tokens, p) ==
    \/ tokens[p + 1].ttype = "Eof"
    \/ (p >= 1 /\ tokens[p].ttype = "SemiColon")
    \/ tokens[p + 1].ttype \in SyncKeywords

\* Parser::parse never panics, and every iteration of its loop consumes a
\* token, so that it terminates
ParseProgress ==
    /\ parser.at # "idle" => ~parser.P.panicked
    /\ (parser.at # "idle" /\ parser.last.r # "None") => parser.last.end > parser.last.start

\* C6 (as claimed): when parse has returned and reported a syntax error,
\* success() is false.
C6_ReportedErrorClearsSuccess ==
    (parser.at = "done" /\ parser.reported # <<>>) => ~parser.success

\* C10 (as claimed): parse does not panic; every call of synchronize consumes
\* at least one token and stops at a statement boundary; and parsing resumes
\* at the first boundary after the error, where the first synchronize stopped.
C10_SynchronizeToNextStatement ==
    (parser.at # "idle") =>
        /\ ~parser.P.panicked
        /\ \A k \in 1..Len(Syncs) :
              /\ Syncs[k].to > Syncs[k].at
              /\ Boundary(parser.P.tokens, Syncs[k].to)
        /\ parser.last.r = "Err" => parser.last.end = Syncs[1].to

\* the level of the grammar at which the parser builds a node: assignment 0,
\* or 1, and 2, equality 3, comparison 4, term 5, factor 6, unary 7, call 8,
\* primary 9
Level(expr) ==
    CASE expr.k \in {"Assign", "Set"} -> 0
      [] expr.k = "Logical" -> (IF expr.operator = "Or" THEN 1 ELSE 2)
      [] expr.k = "Binary" ->
           (CASE expr.operator \in {"BangEqual", "Equal"} -> 3
              [] expr.operator \in {"Greater", "GreaterEqual", "Less", "LessEqual"} -> 4
              [] expr.operator \in {"Minus", "Plus"} -> 5
              [] expr.operator \in {"Slash", "Star"} -> 6)
      [] expr.k = "Unary" -> 7
      [] expr.k \in {"Call", "Get"} -> 8
      [] OTHER -> 9

\* an expression tree is in precedence order: the left operand of a binary
\* operator is of its level or a tighter one (left association), its right
\* operand of a tighter one; the operand of a unary operator is a unary or
\* tighter; a callee or the object of a property is a call or tighter; the
\* value of an assignment, a grouped expression and an argument are free
RECURSIVE ByPrecedence(_)
ByPrecedence(expr) ==
    CASE expr.k = "Assign" -> ByPrecedence(expr.value)
      [] expr.k = "Set" ->
           Level(expr.object) >= 8 /\ ByPrecedence(expr.object) /\ ByPrecedence(expr.value)
      [] expr.k \in {"Binary", "Logical"} ->
           /\ Level(expr.left) >= Level(expr)
           /\ Level(expr.right) > Level(expr)
           /\ ByPrecedence(expr.left)
           /\ ByPrecedence(expr.right)
      [] expr.k = "Unary" -> Level(expr.right) >= 7 /\ ByPrecedence(expr.right)
      [] expr.k = "Call" ->
           /\ Level(expr.callee) >= 8
           /\ ByPrecedence(expr.callee)
           /\ \A i \in DOMAIN expr.arguments : ByPrecedence(expr.arguments[i])
      [] expr.k = "Get" -> Level(expr.object) >= 8 /\ ByPrecedence(expr.object)
      [] expr.k = "Grouping" -> ByPrecedence(expr.expression)
      [] OTHER -> TRUE

\* every expression of a statement is in precedence order
RECURSIVE StmtByPrecedence(_)
StmtByPrecedence(stmt) ==
    CASE stmt.k \in {"Expression", "Print"} -> ByPrecedence(stmt.expression)
      [] stmt.k = "Var" ->
           \A i \in DOMAIN stmt.initializer : ByPrecedence(stmt.initializer[i])
      [] stmt.k = "Return" -> \A i \in DOMAIN stmt.value : ByPrecedence(stmt.value[i])
      [] stmt.k = "Block" ->
           \A i \in DOMAIN stmt.statements : StmtByPrecedence(stmt.statements[i])
      [] stmt.k = "If" ->
           /\ ByPrecedence(stmt.condition)
           /\ StmtByPrecedence(stmt.then_branch)
           /\ \A i \in DOMAIN stmt.else_branch : StmtByPrecedence(stmt.else_branch[i])
      [] stmt.k = "While" -> ByPrecedence(stmt.condition) /\ StmtByPrecedence(stmt.body)
      [] stmt.k = "Function" -> \A i \in DOMAIN stmt.body : StmtByPrecedence(stmt.body[i])
      [] stmt.k = "Class" ->
           \A i \in DOMAIN stmt.methods : StmtByPrecedence(stmt.methods[i])
      [] OTHER -> TRUE

\* parse has returned from the tokens `tokens` followed by EOF
Parsed(tokens) == parser.at = "done" /\ parser.P.tokens = tokens \o <<Eof>>

\* C21: every expression the parser builds is in precedence order, binary
\* operators of one level associating to the left and assignment to the
\* right: `1 + 2 * 3` parses as 1 + (2 * 3), which evaluates to 7,
\* `1 - 2 - 3` as (1 - 2) - 3, and `a = b = 1` as a = (b = 1).
C21_PrecedenceAndAssociativity ==
    /\ parser.at # "idle" =>
          \A i \in DOMAIN parser.statements : StmtByPrecedence(parser.statements[i])
    /\ Parsed(OnePlusTwoTimesThree) =>
          /\ parser.statements =
                <<ExpressionStmt(Binary(Literal(Num(1)), "Plus",
                                        Binary(Literal(Num(2)), "Star", Literal(Num(3)))))>>
          /\ evaluate(parser.statements[1].expression, InterpreterNew).r = "Ok"
          /\ evaluate(parser.statements[1].expression, InterpreterNew).v = Num(7)
    /\ Parsed(<<Number(1), Fixed("Minus"), Number(2), Fixed("Minus"), Number(3),
                Fixed("SemiColon")>>) =>
          parser.statements =
             <<ExpressionStmt(Binary(Binary(Literal(Num(1)), "Minus", Literal(Num(2))),
                                     "Minus", Literal(Num(3))))>>
    /\ Parsed(<<Identifier("a"), Fixed("Assign"), Identifier("b"), Fixed("Assign"),
                Number(1), Fixed("SemiColon")>>) =>
          /\ Len(parser.statements) = 1
          /\ parser.statements[1].k = "Expression"
          /\ parser.statements[1].expression.k = "Assign"
          /\ parser.statements[1].expression.name = "a"
          /\ parser.statements[1].expression.value.k = "Assign"
          /\ parser.statements[1].expression.value.name = "b"
          /\ parser.statements[1].expression.value.value = Literal(Num(1))

\* `1 + 2 * 3 ;` has been parsed into one statement
C21_Witness == Parsed(OnePlusTwoTimesThree) /\ Len(parser.statements) = 1

\* the errors Parser::error built in the last iteration of the loop of parse
Errors == SelectSeq(parser.last.log, LAMBDA e : e.ev = "error")

\* parse has reported, with LoxResult::report, an error with this message
Reported(message) == \E i \in DOMAIN parser.reported : parser.reported[i].message = message

\* the last iteration of the loop of parse met an assignment whose target
\* is neither a Variable nor a Get, and no other error
InvalidTargetOnly ==
    /\ parser.at # "idle"
    /\ Errors # <<>>
    /\ \A i \in DOMAIN Errors : Errors[i].message = "Invalid assignment target."

\* an invalid assignment target marks the parse as failed and is no Err:
\* the declaration is parsed to its end, with the left-hand side in the
\* place of the assignment, and nothing is synchronized
InvalidTargetIsTolerated ==
    InvalidTargetOnly =>
        /\ parser.P.has_error
        /\ parser.last.r = "Ok"
        /\ Syncs = <<>>
        /\ Parsed(<<Number(1), Fixed("Assign"), Number(2), Fixed("SemiColon")>>) =>
              parser.statements = <<ExpressionStmt(Literal(Num(1)))>>

\* C22 (as claimed): an invalid assignment target is reported as the syntax
\* error 'Invalid assignment target.', marks the parse as failed, and the
\* declaration is parsed on without an Err and without synchronizing.
C22_InvalidTargetReportedNotAborting ==
    InvalidTargetOnly =>
        /\ Reported("Invalid assignment target.")
        /\ parser.P.has_error
        /\ parser.last.r = "Ok"
        /\ Syncs = <<>>

\* the messages of the two limits
TooManyMessages ==
    {"Can't have more than 255 parameters.", "Can't have more than 255 arguments."}

\* the last iteration of the loop of parse met a list over its limit
TooMany ==
    /\ parser.at # "idle"
    /\ \E i \in DOMAIN Errors : Errors[i].message \in TooManyMessages

\* a list over its limit marks the parse as failed and does not end it: a
\* function is parsed with all its parameters, a call is given up as an Err
\* that parse reports, and the statements after either are parsed; a list
\* at its limit is no error
TooManyIsNotFatal ==
    /\ TooMany => parser.P.has_error /\ ~parser.P.panicked
    /\ (TooMany /\ parser.last.r = "Err") =>
          Reported("Can't have more than 255 arguments.")
    /\ Parsed(FunctionOf(MaxParameters + 1) \o
              <<Fixed("Print"), Number(1), Fixed("SemiColon")>>) =>
          /\ Len(parser.statements) = 2
          /\ Len(parser.statements[1].params) = MaxParameters + 1
          /\ parser.statements[2] = PrintStmt(Literal(Num(1)))
    /\ Parsed(CallOf(MaxArguments + 1) \o
              <<Fixed("Print"), Number(1), Fixed("SemiColon")>>) =>
          parser.statements = <<PrintStmt(Literal(Num(1)))>>
    /\ Parsed(FunctionOf(MaxParameters) \o
              <<Fixed("Print"), Number(1), Fixed("SemiColon")>>) =>
          /\ parser.success
          /\ Len(parser.statements) = 2
          /\ Len(parser.statements[1].params) = MaxParameters
    /\ Parsed(CallOf(MaxArguments) \o
              <<Fixed("Print"), Number(1), Fixed("SemiColon")>>) =>
          /\ parser.success
          /\ Len(parser.statements) = 2
          /\ Len(parser.statements[1].expression.arguments) = MaxArguments

\* C23 (as claimed): a parameter list or an argument list of more than 255
\* entries is reported as a syntax error and marks the parse as failed, and
\* the parse goes on to the end of the tokens.
C23_TooManyReportedNotAborting ==
    TooMany =>
        /\ \E m \in TooManyMessages : Reported(m)
        /\ parser.P.has_error
        /\ ~parser.P.panicked

\* C24 (as claimed): `super . a ;` parses without error to a Super
\* expression whose method is `a`, and `super . . ;`, where no method name
\* follows the dot, is a reported syntax error.
C24_SuperMethodAccess ==
    /\ Parsed(<<Fixed("Super"), Fixed("Dot"), Identifier("a"), Fixed("SemiColon")>>) =>
          /\ parser.reported = <<>>
          /\ Len(parser.statements) = 1
          /\ parser.statements[1].k = "Expression"
          /\ parser.statements[1].expression.k = "Super"
          /\ parser.statements[1].expression.method = "a"
    /\ Parsed(<<Fixed("Super"), Fixed("Dot"), Fixed("Dot"), Fixed("SemiColon")>>) =>
          parser.reported # <<>>

(***************************************************************************)
(* Scanner (scanner.rs).  S is the record of its fields (source, tokens,   *)
(* start, current, line) with two additions: `panicked`, set when an       *)
(* unwrap or a slice of the source fails, and `comments`, the comments     *)
(* print_comment wrote.  A char is a string of one character, the source   *)
(* a sequence of chars counted from 0 as in the code, an Option<char> a    *)
(* sequence of length 0 or 1.  A scanning method that returns a Result     *)
(* returns [S, r, e]: r is "Ok" or "Err", e the LoxError.                  *)
(***************************************************************************)
AsciiDigits == {"0", "1", "2", "3", "4", "5", "6", "7", "8", "9"}

AsciiLetters ==
    {"a", "b", "c", "d", "e", "f", "g", "h", "i", "j", "k", "l", "m",
     "n", "o", "p", "q", "r", "s", "t", "u", "v", "w", "x", "y", "z",
     "A", "B", "C", "D", "E", "F", "G", "H", "I", "J", "K", "L", "M",
     "N", "O", "P", "Q", "R", "S", "T", "U", "V", "W", "X", "Y", "Z"}

\* the code of a char, for the chars of the sources below
char_code(c) ==
    CASE c = "\n" -> 10 [] c = " " -> 32 [] c = "!" -> 33 [] c = "\"" -> 34
      [] c = "(" -> 40 [] c = "*" -> 42 [] c = "." -> 46 [] c = "/" -> 47
      [] c = "0" -> 48 [] c = "1" -> 49 [] c = "2" -> 50 [] c = "3" -> 51
      [] c = "4" -> 52 [] c = "5" -> 53 [] c = "6" -> 54 [] c = "7" -> 55
      [] c = "8" -> 56 [] c = "9" -> 57 [] c = "<" -> 60 [] c = "=" -> 61 [] c = ">" -> 62
      [] c = "@" -> 64 [] c = "_" -> 95 [] c = "a" -> 97 [] c = "o" -> 111
      [] c = "r" -> 114

\* Token::new of token.rs, with the line the parser model leaves out
Token_new(ttype, lexeme, literal, line) ==
    [ttype |-> ttype, lexeme |-> lexeme, literal |-> literal, line |-> line]

\* Token::eof
Token_eof(line) == Token_new("Eof", <<>>, <<>>, line)

\* Scanner::new
ScannerNew(source) ==
    [source |-> source, tokens |-> <<>>, start |-> 0, current |-> 0, line |-> 1,
     panicked |-> FALSE, comments |-> <<>>]

\* Ok(())
SOk(S) == [S |-> S, r |-> "Ok", e |-> <<>>]

\* Err(LoxError::error(line, message))
SErr(S, line, message) == [S |-> S, r |-> "Err", e |-> [line |-> line, message |-> message]]

\* self.source.get(i)
source_get(S, i) == IF i >= 0 /\ i < Len(S.source) THEN <<S.source[i + 1]>> ELSE <<>>

\* self.source[a..b]: the slice and whether taking it panics
slice(S, a, b) == IF a <= b /\ b <= Len(S.source) THEN SubSeq(S.source, a + 1, b) ELSE <<>>

slice_panics(S, a, b) == ~(a >= 0 /\ a <= b /\ b <= Len(S.source))

\* Scanner::is_at_end
scanner_is_at_end(S) == S.current >= Len(S.source)

\* Scanner::advance
scanner_advance(S) ==
    [S EXCEPT !.current = @ + 1, !.panicked = @ \/ source_get(S, S.current) = <<>>]

\* Scanner::is_match: compares the next char with `expected`; `current` is
\* left where it is
scanner_is_match(expected, S) == source_get(S, S.current) = <<expected>>

\* Scanner::peek
scanner_peek(S) == source_get(S, S.current)

\* Scanner::peek_next
peek_next(S) == source_get(S, S.current + 1)

\* Scanner::is_digit
is_digit(ch) == ch # <<>> /\ ch[1] \in AsciiDigits

\* Scanner::is_alpha_numeric: char::is_ascii_alphanumeric
is_alpha_numeric(ch) == ch # <<>> /\ ch[1] \in AsciiDigits \cup AsciiLetters

\* char::is_alphanumeric, on the chars of the sources below
is_alphanumeric(c) == c \in AsciiDigits \cup AsciiLetters

\* Scanner::add_token_object
add_token_object(ttype, literal, S) ==
    [S EXCEPT !.tokens = Append(@, Token_new(ttype, slice(S, S.start, S.current),
                                             literal, S.line)),
              !.panicked = @ \/ slice_panics(S, S.start, S.current)]

\* Scanner::add_token
add_token(ttype, S) == add_token_object(ttype, <<>>, S)

\* Scanner::print_comment
print_comment(start, S) ==
    [S EXCEPT !.comments = Append(@, slice(S, start, S.current)),
              !.panicked = @ \/ slice_panics(S, start, S.current)]

\* Scanner::keywords
keywords(val) ==
    CASE val = <<"a", "n", "d">> -> <<"And">>
      [] val = <<"c", "l", "a", "s", "s">> -> <<"Class">>
      [] val = <<"e", "l", "s", "e">> -> <<"Else">>
      [] val = <<"f", "a", "l", "s", "e">> -> <<"False">>
      [] val = <<"f", "o", "r">> -> <<"For">>
      [] val = <<"f", "u", "n">> -> <<"Fun">>
      [] val = <<"i", "f">> -> <<"If">>
      [] val = <<"n", "i", "l">> -> <<"Nil">>
      [] val = <<"o", "r">> -> <<"Or">>
      [] val = <<"p", "r", "i", "n", "t">> -> <<"Print">>
      [] val = <<"r", "e", "t", "u", "r", "n">> -> <<"Return">>
      [] val = <<"s", "u", "p", "e", "r">> -> <<"Super">>
      [] val = <<"t", "h", "i", "s">> -> <<"This">>
      [] val = <<"t", "r", "u", "e">> -> <<"True">>
      [] val = <<"v", "a", "r">> -> <<"Var">>
      [] val = <<"w", "h", "i", "l", "e">> -> <<"While">>
      [] OTHER -> <<>>

\* Scanner::identifier, its loop
RECURSIVE identifier_loop(_)
identifier_loop(S) ==
    IF is_alpha_numeric(scanner_peek(S)) THEN identifier_loop(scanner_advance(S)) ELSE S

\* Scanner::identifier, after its loop
identifier_token(S) ==
    LET val == slice(S, S.start, S.current)
    IN  IF keywords(val) # <<>> THEN add_token(keywords(val)[1], S)
        ELSE add_token("Identifier", S)

\* Scanner::identifier
identifier(S) == identifier_token(identifier_loop(S))

\* the number a run of decimal digits denotes
RECURSIVE decimal(_)
decimal(digits) ==
    IF digits = <<>> THEN 0
    ELSE 10 * decimal(SubSeq(digits, 1, Len(digits) - 1))
         + (char_code(digits[Len(digits)]) - char_code("0"))

RECURSIVE Pow10(_)
Pow10(k) == IF k = 0 THEN 1 ELSE 10 * Pow10(k - 1)

\* str::parse::<f64> on digits with an optional `.digits`
parse_f64(val) ==
    LET dots == {i \in 1..Len(val) : val[i] = "."}
        dot == CHOOSE i \in dots : TRUE
    IN  IF dots = {} THEN F64(decimal(val), 1)
        ELSE F64(decimal(SubSeq(val, 1, dot - 1) \o SubSeq(val, dot + 1, Len(val))),
                 Pow10(Len(val) - dot))

\* Scanner::number, its loops over digits
RECURSIVE digits_loop(_)
digits_loop(S) == IF is_digit(scanner_peek(S)) THEN digits_loop(scanner_advance(S)) ELSE S

\* Scanner::number, the fraction
number_fraction(S) ==
    IF scanner_peek(S) = <<".">> /\ is_digit(peek_next(S))
    THEN digits_loop(scanner_advance(S))
    ELSE S

\* Scanner::number, the token
number_token(S) ==
    add_token_object("Number", <<NumF(parse_f64(slice(S, S.start, S.current)))>>, S)

\* Scanner::number
number(S) == number_token(number_fraction(digits_loop(S)))

\* Scanner::string, its loop
RECURSIVE string_loop(_)
string_loop(S) ==
    IF scanner_peek(S) = <<>> \/ scanner_peek(S) = <<"\"">> THEN S
    ELSE string_loop(scanner_advance(IF scanner_peek(S) = <<"\n">>
                                     THEN [S EXCEPT !.line = @ + 1] ELSE S))

RECURSIVE char_codes(_)
char_codes(chars) ==
    IF chars = <<>> THEN <<>> ELSE <<char_code(Head(chars))>> \o char_codes(Tail(chars))

\* Scanner::string, after its loop
string_token(S) ==
    IF scanner_is_at_end(S) THEN SErr(S, S.line, "Unterminated string.")
    ELSE SOk([add_token_object("String",
                  <<Str(char_codes(slice(S, S.start + 1, S.current)))>>,
                  scanner_advance(S))
              EXCEPT !.panicked = @ \/ slice_panics(S, S.start + 1, S.current)])

\* Scanner::string
string(S) == string_token(string_loop(S))

\* Scanner::scan_token, the loop over a `//` comment
RECURSIVE line_comment_loop(_)
line_comment_loop(S) ==
    IF scanner_peek(S) # <<>> /\ scanner_peek(S) # <<"\n">>
    THEN line_comment_loop(scanner_advance(S))
    ELSE S

\* Scanner::scan_comment, its loop
RECURSIVE scan_comment_loop(_)
scan_comment_loop(S) ==
    IF ~scanner_is_match("*", S) /\ ~scanner_is_at_end(S)
    THEN scan_comment_loop(IF peek_next(S) = <<"\n">>
                           THEN [scanner_advance(S) EXCEPT !.line = @ + 1]
                           ELSE scanner_advance(S))
    ELSE S

RECURSIVE scan_comment(_, _)

\* Scanner::scan_comment, after its loop
scan_comment_end(start, S) ==
    IF ~scanner_is_at_end(S)
    THEN IF scanner_is_match("*", S) /\ peek_next(S) = <<"/">>
         THEN SOk(print_comment(start, scanner_advance(scanner_advance(S))))
         ELSE scan_comment(start, scanner_advance(S))
    ELSE SErr(S, S.line, "UnClosed comment.")

\* Scanner::scan_comment
scan_comment(start, S) == scan_comment_end(start, scan_comment_loop(S))

\* Scanner::scan_token, after its advance: c is the char read
scan_char(c, S) ==
    CASE c = "(" -> SOk(add_token("LeftParen", S))
      [] c = ")" -> SOk(add_token("RightParen", S))
      [] c = "{" -> SOk(add_token("LeftBrace", S))
      [] c = "}" -> SOk(add_token("RightBrace", S))
      [] c = "," -> SOk(add_token("Comma", S))
      [] c = "." -> SOk(add_token("Dot", S))
      [] c = "-" -> SOk(add_token("Minus", S))
      [] c = "+" -> SOk(add_token("Plus", S))
      [] c = ";" -> SOk(add_token("SemiColon", S))
      [] c = "*" -> SOk(add_token("Star", S))
      [] c = "!" ->
            SOk(add_token(IF scanner_is_match("=", S) THEN "BangEqual" ELSE "Bang", S))
      [] c = "=" ->
            SOk(add_token(IF scanner_is_match("=", S) THEN "Equal" ELSE "Assign", S))
      [] c = ">" ->
            SOk(add_token(IF scanner_is_match("=", S) THEN "GreaterEqual" ELSE "Greater", S))
      [] c = "<" ->
            SOk(add_token(IF scanner_is_match("=", S) THEN "LessEqual" ELSE "Less", S))
      [] c = "/" ->
            IF scanner_is_match("/", S)
            THEN SOk(print_comment(S.current - 1, line_comment_loop(S)))
            ELSE IF scanner_is_match("*", S)
            THEN scan_comment(S.current - 1, scanner_advance(S))
            ELSE SOk(add_token("Slash", S))
      [] c \in {" ", "\r", "\t"} -> SOk(S)
      [] c = "\n" -> SOk([S EXCEPT !.line = @ + 1])
      [] c = "\"" -> string(S)
      [] c \in AsciiDigits -> SOk(number(S))
      [] OTHER ->
            IF is_alphanumeric(c) \/ c = "_" THEN SOk(identifier(S))
            ELSE SErr(S, S.line, "Unknown token type")

\* Scanner::scan_token; it is called only when the source is not at its end
scan_token(S) ==
    IF source_get(S, S.current) = <<>>
    THEN SErr(scanner_advance(S), S.line, "panic")
    ELSE scan_char(source_get(S, S.current)[1], scanner_advance(S))

(***************************************************************************)
(* SpecScanner: Scanner::scan_tokens over a source text.  The sources are  *)
(* up to MaxSourceChunks chunks of the pool below: chars of every class    *)
(* scan_token tells apart, the keyword `or` and the two ends of a block    *)
(* comment.  One action is one iteration of the loop of scan_tokens.       *)
(***************************************************************************)
MaxSourceChunks == 3

SourceChunks ==
    {<<"(">>, <<"!">>, <<"=">>, <<"<">>, <<">">>, <<"/">>, <<"*">>, <<"\n">>, <<"\"">>,
     <<"a">>, <<"_">>, <<"1">>, <<".">>, <<"@">>, <<" ">>,
     <<"o", "r">>, <<"/", "*">>, <<"*", "/">>}

RECURSIVE SourcesOf(_)
SourcesOf(n) ==
    IF n = 0 THEN {<<>>}
    ELSE SourcesOf(n - 1) \cup {s \o c : s \in SourcesOf(n - 1), c \in SourceChunks}

\* the source `break;` and, for comparison, the keyword `while`
BreakSource == <<"b", "r", "e", "a", "k", ";">>

WhileSource == <<"w", "h", "i", "l", "e">>

Sources == SourcesOf(MaxSourceChunks) \cup {BreakSource, WhileSource}

NoScan == [start |-> 0, end |-> 0, r |-> "None", tokens |-> 0]

InitScanner ==
    /\ scanner \in {[at |-> "scanning", S |-> ScannerNew(source), had_error |-> <<>>,
                     reported |-> <<>>, result |-> "None", last |-> NoScan]
                    : source \in Sources}
    /\ program = <<>>
    /\ pc = [at |-> "idle", i |-> 0]
    /\ resolver = ResolverNew
    /\ interp = InterpreterNew
    /\ parser = IdleParser
    /\ bin = IdleBin
    /\ inst = IdleInst
    /\ envs = IdleEnvs

\* Scanner::scan_tokens, the body of its loop after scan_token returned res:
\* an error is reported and kept in had_error
scan_tokens_loop(sc, res) ==
    IF res.S.panicked
    THEN [sc EXCEPT !.at = "panicked", !.S = res.S]
    ELSE [sc EXCEPT !.S = res.S,
                    !.had_error = IF res.r = "Ok" THEN @ ELSE <<res.e>>,
                    !.reported = IF res.r = "Ok" THEN @ ELSE Append(@, res.e),
                    !.last = [start |-> sc.S.current, end |-> res.S.current,
                              r |-> res.r, tokens |-> Len(sc.S.tokens)]]

\* Scanner::scan_tokens, one iteration of its loop
ScanToken ==
    /\ scanner.at = "scanning"
    /\ ~scanner_is_at_end(scanner.S)
    /\ scanner' = scan_tokens_loop(scanner,
                                   scan_token([scanner.S EXCEPT !.start = scanner.S.current]))
    /\ UNCHANGED <<program, pc, resolver, interp, parser, bin, inst, envs>>

\* Scanner::scan_tokens after its loop: the EOF token and the result
ScanReturn ==
    /\ scanner.at = "scanning"
    /\ scanner_is_at_end(scanner.S)
    /\ scanner' = [scanner EXCEPT !.at = "done",
                                  !.S.tokens = Append(@, Token_eof(scanner.S.line)),
                                  !.result = IF scanner.had_error # <<>> THEN "Err" ELSE "Ok"]
    /\ UNCHANGED <<program, pc, resolver, interp, parser, bin, inst, envs>>

NextScanner == ScanToken \/ ScanReturn

SpecScanner == InitScanner /\ [][NextScanner]_vars

(***************************************************************************)
(* Properties of SpecScanner.                                              *)
(***************************************************************************)
\* the char at position i of the source, counted from 0, as an Option
SourceAt(i) == source_get(scanner.S, i)

\* the tokens the last iteration of the loop of scan_tokens added
LastTokens == SubSeq(scanner.S.tokens, scanner.last.tokens + 1, Len(scanner.S.tokens))

\* the number of line feeds of a source
LineFeeds(source) == Cardinality({i \in 1..Len(source) : source[i] = "\n"})

\* no unwrap and no slice fails, every scan_token consumes a char, the loop
\* consumes the whole source whatever errors it met, one EOF token ends the
\* tokens, and scan_tokens fails exactly when an error was reported
ScanProgress ==
    (scanner.at # "idle") =>
        /\ scanner.at # "panicked"
        /\ scanner.last.r # "None" => scanner.last.end > scanner.last.start
        /\ scanner.at = "done" =>
              /\ scanner.S.current = Len(scanner.S.source)
              /\ \A i \in 1..Len(scanner.S.tokens) :
                    scanner.S.tokens[i].ttype = "Eof" <=> i = Len(scanner.S.tokens)
              /\ scanner.S.tokens # <<>>
              /\ scanner.result = "Err" <=> scanner.reported # <<>>

\* C11 (as claimed): scan_tokens consumes the whole source, each scan_token
\* consuming at least one char and scanning going on after an error; the
\* last token, and no other, is an EOF token, and it carries the number of
\* the final line of the source; the call fails if and only if an error
\* was reported.
C11_ScanTokensConsumesSource ==
    /\ ScanProgress
    /\ scanner.at = "done" =>
          scanner.S.tokens[Len(scanner.S.tokens)].line = 1 + LineFeeds(scanner.S.source)

\* the operator chars that a following `=` turns into a two-char operator
TwoCharOperator(c) ==
    CASE c = "!" -> "BangEqual" [] c = "=" -> "Equal"
      [] c = "<" -> "LessEqual" [] c = ">" -> "GreaterEqual"

\* C12 (as claimed): an iteration of scan_tokens that starts at one of the
\* pairs `!=`, `==`, `<=`, `>=` adds exactly one token, BangEqual, Equal,
\* LessEqual or GreaterEqual, whose lexeme is both chars, and consumes the
\* `=` with it.
C12_TwoCharOperatorIsOneToken ==
    (scanner.at # "idle" /\ scanner.last.r # "None"
        /\ SourceAt(scanner.last.start) # <<>>
        /\ SourceAt(scanner.last.start)[1] \in {"!", "=", "<", ">"}
        /\ SourceAt(scanner.last.start + 1) = <<"=">>) =>
        /\ scanner.last.end = scanner.last.start + 2
        /\ Len(LastTokens) = 1
        /\ LastTokens[1].ttype = TwoCharOperator(SourceAt(scanner.last.start)[1])
        /\ LastTokens[1].lexeme = <<SourceAt(scanner.last.start)[1], "=">>

\* a char of an identifier: a letter, a digit or an underscore
IsWordChar(ch) == ch # <<>> /\ ch[1] \in AsciiLetters \cup AsciiDigits \cup {"_"}

\* the end of the maximal run of letters, digits and underscores from i
RECURSIVE WordEnd(_)
WordEnd(i) == IF IsWordChar(SourceAt(i)) THEN WordEnd(i + 1) ELSE i

\* C13 (as claimed): an iteration of scan_tokens that starts at a maximal
\* run of letters, digits and underscores whose first char is a letter or
\* an underscore adds exactly one token, whose lexeme is the whole run: the
\* keyword token when the run is a keyword, an Identifier otherwise.
C13_WordIsOneToken ==
    (scanner.at # "idle" /\ scanner.last.r # "None"
        /\ IsWordChar(SourceAt(scanner.last.start))
        /\ ~is_digit(SourceAt(scanner.last.start))
        /\ ~IsWordChar(SourceAt(scanner.last.start - 1))) =>
        LET word == slice(scanner.S, scanner.last.start, WordEnd(scanner.last.start))
        IN  /\ scanner.last.end = WordEnd(scanner.last.start)
            /\ Len(LastTokens) = 1
            /\ LastTokens[1].lexeme = word
            /\ LastTokens[1].ttype =
                  IF keywords(word) # <<>> THEN keywords(word)[1] ELSE "Identifier"

\* the tokens of the scanner as the parser takes them
ScannedTokens == [i \in 1..Len(scanner.S.tokens) |->
                     Token(scanner.S.tokens[i].ttype, scanner.S.tokens[i].lexeme,
                           scanner.S.tokens[i].literal)]

\* C28 (as claimed): the source word `break` is scanned as a Break token,
\* and the source `break;` is parsed as a Break statement.
C28_BreakIsKeyword ==
    (scanner.at = "done" /\ scanner.S.source = BreakSource) =>
        /\ scanner.S.tokens[1].ttype = "Break"
        /\ declaration(ParserNew(ScannedTokens)).v = BreakStmt

\* the words of Scanner::keywords are scanned as their keyword tokens
KeywordsAreScanned ==
    (scanner.at = "done" /\ scanner.S.source = WhileSource) =>
        /\ scanner.S.tokens[1].ttype = "While"
        /\ Len(scanner.S.tokens) = 2

\* the line feeds of the source before position `end`
LineFeedsBefore(end) == LineFeeds(SubSeq(scanner.S.source, 1, end))

\* C30 (as claimed): every token carries the line number 1 + the number of
\* line feeds of the source before the end of the token, the EOF token
\* that of the whole source, wherever the line feeds are: in white space,
\* in string literals, after line comments or in block comments.
C30_TokensCarryTheirLine ==
    /\ (scanner.at # "idle" /\ scanner.last.r # "None") =>
          \A i \in DOMAIN LastTokens :
              LastTokens[i].line = 1 + LineFeedsBefore(scanner.last.end)
    /\ scanner.at = "done" =>
          scanner.S.tokens[Len(scanner.S.tokens)].line
              = 1 + LineFeedsBefore(Len(scanner.S.source))

\* a block comment is an opening `/*` up to the first `*/` after it; the
\* source has no `/*` before position p
NoBlockCommentBefore(p) ==
    \A i \in 0..(p - 2) : ~(SourceAt(i) = <<"/">> /\ SourceAt(i + 1) = <<"*">>)

\* outside block comments the line numbers are as claimed: a token scanned
\* before any `/*` carries the line number of its end, and so does the EOF
\* token of a source without `/*`
LinesOutsideBlockComments ==
    /\ (scanner.at # "idle" /\ scanner.last.r # "None"
          /\ NoBlockCommentBefore(scanner.last.end)) =>
          \A i \in DOMAIN LastTokens :
              LastTokens[i].line = 1 + LineFeedsBefore(scanner.last.end)
    /\ (scanner.at = "done" /\ NoBlockCommentBefore(Len(scanner.S.source))) =>
          scanner.S.tokens[Len(scanner.S.tokens)].line
              = 1 + LineFeedsBefore(Len(scanner.S.source))

(***************************************************************************)
(* LoxClass (lox_class.rs) and LoxInstance (lox_instance.rs).  An          *)
(* Rc<LoxClass> is an index into `classes`; 0 is the None of `superclass`. *)
(* A method is the function object stored under its name; `owner`, the     *)
(* class that declared it, tells two methods of one name apart.            *)
(***************************************************************************)
\* LoxClass::new
LoxClass_new(name, superclass, methods) ==
    [name |-> name, methods |-> methods, superclass |-> superclass]

\* LoxClass::find_method: an Option<Object>
RECURSIVE find_method(_, _, _)
find_method(classes, c, name) ==
    IF name \in DOMAIN classes[c].methods THEN <<classes[c].methods[name]>>
    ELSE IF classes[c].superclass # 0 THEN find_method(classes, classes[c].superclass, name)
    ELSE <<>>

\* LoxInstance::new
LoxInstance_new(klass) == [klass |-> klass, fields |-> EmptyMap]

\* LoxInstance::get
LoxInstance_get(instance, name) ==
    IF name \in DOMAIN instance.fields
    THEN [r |-> "Ok", v |-> instance.fields[name], msg |-> ""]
    ELSE [r |-> "RuntimeError", v |-> Nil, msg |-> "Undefined property"]

\* LoxInstance::set
LoxInstance_set(instance, name, value) ==
    [instance EXCEPT !.fields = Insert(@, name, value)]

(***************************************************************************)
(* SpecInstance: one instance of a class of a chain of up to MaxClasses    *)
(* classes, each a subclass of the one before it, under calls of set, get  *)
(* and of find_method on its class.                                        *)
(***************************************************************************)
MaxClasses == 2

PropertyNames == {"m", "x"}

FieldValues == {Num(1), Num(2)}

\* the function object a class stores for its method `name`
Method(name, owner) == [t |-> "Func", name |-> name, owner |-> owner, this |-> <<>>]

\* the chain of classes in which class i declares the methods named[i]
ClassChain(named) ==
    [i \in DOMAIN named |->
        LoxClass_new(i, i - 1, [name \in named[i] |-> Method(name, i)])]

ClassChains ==
    UNION {{ClassChain(named) : named \in [1..n -> SUBSET PropertyNames]} : n \in 1..MaxClasses}

InitInstance ==
    /\ inst \in {[at |-> "ready", classes |-> classes, instance |-> LoxInstance_new(klass),
                  last |-> [op |-> "new", name |-> "", result |-> <<>>]]
                 : classes \in ClassChains, klass \in 1..MaxClasses}
    /\ inst.instance.klass \in DOMAIN inst.classes
    /\ program = <<>>
    /\ pc = [at |-> "idle", i |-> 0]
    /\ resolver = ResolverNew
    /\ interp = InterpreterNew
    /\ parser = IdleParser
    /\ bin = IdleBin
    /\ scanner = IdleScanner
    /\ envs = IdleEnvs

\* LoxInstance::set
InstanceSet ==
    \E name \in PropertyNames, value \in FieldValues :
        /\ inst.at = "ready"
        /\ inst' = [inst EXCEPT !.instance = LoxInstance_set(@, name, value),
                                !.last = [op |-> "set", name |-> name, result |-> <<>>]]
        /\ UNCHANGED <<program, pc, resolver, interp, parser, bin, scanner, envs>>

\* LoxInstance::get
InstanceGet ==
    \E name \in PropertyNames :
        /\ inst.at = "ready"
        /\ inst' = [inst EXCEPT !.last = [op |-> "get", name |-> name,
                                          result |-> <<LoxInstance_get(inst.instance, name)>>]]
        /\ UNCHANGED <<program, pc, resolver, interp, parser, bin, scanner, envs>>

\* LoxClass::find_method on the class of the instance
ClassFindMethod ==
    \E name \in PropertyNames :
        /\ inst.at = "ready"
        /\ inst' = [inst EXCEPT !.last = [op |-> "find_method", name |-> name,
                                          result |-> find_method(inst.classes,
                                                                 inst.instance.klass, name)]]
        /\ UNCHANGED <<program, pc, resolver, interp, parser, bin, scanner, envs>>

NextInstance == InstanceSet \/ InstanceGet \/ ClassFindMethod

SpecInstance == InitInstance /\ [][NextInstance]_vars

(***************************************************************************)
(* Properties of SpecInstance.                                             *)
(***************************************************************************)
\* the classes of the chain from c outward, nearest first
RECURSIVE Ancestors(_, _)
Ancestors(classes, c) ==
    IF c = 0 THEN <<>> ELSE <<c>> \o Ancestors(classes, classes[c].superclass)

\* the most-derived class from c outward that declares `name`; 0 when none does
Declaring(classes, c, name) ==
    LET chain == Ancestors(classes, c)
        hits == {i \in 1..Len(chain) : name \in DOMAIN classes[chain[i]].methods}
    IN  IF hits = {} THEN 0 ELSE chain[CHOOSE i \in hits : \A j \in hits : i <= j]

\* a method bound to the instance: LoxFunction::bind defines `this` for it
BoundTo(method, instance) == [method EXCEPT !.this = <<instance>>]

\* C14 (as claimed): get(name) returns the field when the instance has it;
\* otherwise the method of the most-derived class of the chain that declares
\* name, bound to the instance; and an 'Undefined property' error only when
\* there is neither a field nor a method.
C14_GetFieldThenMethod ==
    (inst.at # "idle" /\ inst.last.op = "get") =>
        LET name == inst.last.name
            result == inst.last.result[1]
            owner == Declaring(inst.classes, inst.instance.klass, name)
        IN  IF name \in DOMAIN inst.instance.fields
            THEN result.r = "Ok" /\ result.v = inst.instance.fields[name]
            ELSE IF owner # 0
            THEN result.r = "Ok"
                 /\ result.v = BoundTo(inst.classes[owner].methods[name], inst.instance)
            ELSE result.r = "RuntimeError" /\ result.msg = "Undefined property"

\* find_method returns the method of the most-derived declaring class
FindMethodMostDerived ==
    (inst.at # "idle" /\ inst.last.op = "find_method") =>
        LET owner == Declaring(inst.classes, inst.instance.klass, inst.last.name)
        IN  IF owner = 0 THEN inst.last.result = <<>>
            ELSE inst.last.result = <<inst.classes[owner].methods[inst.last.name]>>

(***************************************************************************)
(* SpecEnvironment: up to MaxEnvs environments, the first made by          *)
(* Environment::new and the others enclosed by an earlier one, under       *)
(* direct calls of define, get and assign.  `bound` is the history the     *)
(* calls leave: for an environment and a name, the value last bound there; *)
(* it is kept apart from the variables of the environments.                *)
(***************************************************************************)
MaxEnvs == 2

VariableNames == {"a", "b"}

VariableValues == {Num(1), Num(2)}

\* the environments from e outward, nearest first
RECURSIVE Chain(_, _)
Chain(heap, e) == IF e = 0 THEN <<>> ELSE <<e>> \o Chain(heap, heap[e].enclosing)

\* the nearest environment from e outward in which `name` was bound; 0 when
\* it was bound in none
Nearest(heap, bound, e, name) ==
    LET chain == Chain(heap, e)
        hits == {i \in 1..Len(chain) : <<chain[i], name>> \in DOMAIN bound}
    IN  IF hits = {} THEN 0 ELSE chain[CHOOSE i \in hits : \A j \in hits : i <= j]

InitEnvironment ==
    /\ envs = [at |-> "ready", heap |-> <<EnvironmentNew>>, bound |-> EmptyMap,
               last |-> [op |-> "new", e |-> 1, name |-> "", value |-> Nil,
                         result |-> <<>>, before |-> <<>>, nearest |-> 0]]
    /\ program = <<>>
    /\ pc = [at |-> "idle", i |-> 0]
    /\ resolver = ResolverNew
    /\ interp = InterpreterNew
    /\ parser = IdleParser
    /\ bin = IdleBin
    /\ scanner = IdleScanner
    /\ inst = IdleInst

\* Environment::new_with_enclosing
EnvironmentEnclose ==
    \E e \in DOMAIN envs.heap :
        /\ envs.at = "ready"
        /\ Len(envs.heap) < MaxEnvs
        /\ envs' = [envs EXCEPT !.heap = Append(@, new_with_enclosing(e)),
                                !.last = [op |-> "new", e |-> Len(envs.heap) + 1, name |-> "",
                                          value |-> Nil, result |-> <<>>, before |-> envs.heap,
                                          nearest |-> 0]]
        /\ UNCHANGED <<program, pc, resolver, interp, parser, bin, scanner, inst>>

\* Environment::define
EnvironmentDefine ==
    \E e \in DOMAIN envs.heap, name \in VariableNames, value \in VariableValues :
        /\ envs.at = "ready"
        /\ envs' = [envs EXCEPT !.heap[e] = environment_define(@, name, value),
                                !.bound = Insert(@, <<e, name>>, value),
                                !.last = [op |-> "define", e |-> e, name |-> name,
                                          value |-> value, result |-> <<>>,
                                          before |-> envs.heap, nearest |-> e]]
        /\ UNCHANGED <<program, pc, resolver, interp, parser, bin, scanner, inst>>

\* the state after Environment::assign returned res
after_assign(env, e, name, value, res) ==
    LET nearest == Nearest(env.heap, env.bound, e, name)
    IN  [env EXCEPT !.heap = res.heap,
                    !.bound = IF nearest = 0 THEN @ ELSE Insert(@, <<nearest, name>>, value),
                    !.last = [op |-> "assign", e |-> e, name |-> name, value |-> value,
                              result |-> <<[r |-> res.r, msg |-> res.msg]>>,
                              before |-> env.heap, nearest |-> nearest]]

\* Environment::assign
EnvironmentAssign ==
    \E e \in DOMAIN envs.heap, name \in VariableNames, value \in VariableValues :
        /\ envs.at = "ready"
        /\ envs' = after_assign(envs, e, name, value,
                                environment_assign(envs.heap, e, name, value))
        /\ UNCHANGED <<program, pc, resolver, interp, parser, bin, scanner, inst>>

\* the state after Environment::get returned res
after_get(env, e, name, res) ==
    [env EXCEPT !.last = [op |-> "get", e |-> e, name |-> name, value |-> Nil,
                          result |-> <<[r |-> res.r, v |-> res.v, msg |-> res.msg]>>,
                          before |-> env.heap,
                          nearest |-> Nearest(env.heap, env.bound, e, name)]]

\* Environment::get
EnvironmentGet ==
    \E e \in DOMAIN envs.heap, name \in VariableNames :
        /\ envs.at = "ready"
        /\ envs' = after_get(envs, e, name, environment_get(envs.heap, e, name))
        /\ UNCHANGED <<program, pc, resolver, interp, parser, bin, scanner, inst>>

NextEnvironment ==
    EnvironmentEnclose \/ EnvironmentDefine \/ EnvironmentAssign \/ EnvironmentGet

SpecEnvironment == InitEnvironment /\ [][NextEnvironment]_vars

(***************************************************************************)
(* Properties of SpecEnvironment.                                          *)
(***************************************************************************)
\* the bindings of a heap: the pairs of an environment and a name it binds
BindingsOf(heap) ==
    {b \in (DOMAIN heap) \X VariableNames : b[2] \in DOMAIN heap[b[1]].variables}

ValueAt(heap, b) == heap[b[1]].variables[b[2]]

\* C16: assign(name, v) on an environment replaces the value of exactly one
\* binding, that of the nearest environment of its chain in which name was
\* bound, and returns Ok; no binding is created and every other binding,
\* like the chain itself, is as before; when name was bound in no
\* environment of the chain it returns the 'Undefined variable' runtime
\* error and every environment is as before.
C16_AssignChangesNearestBindingOnly ==
    (envs.at # "idle" /\ envs.last.op = "assign") =>
        LET before == envs.last.before
            result == envs.last.result[1]
            nearest == envs.last.nearest
        IN  /\ BindingsOf(envs.heap) = BindingsOf(before)
            /\ [e \in DOMAIN envs.heap |-> envs.heap[e].enclosing]
                  = [e \in DOMAIN before |-> before[e].enclosing]
            /\ IF nearest = 0
               THEN /\ result.r = "RuntimeError"
                    /\ result.msg = "Undefined variable"
                    /\ envs.heap = before
               ELSE /\ result.r = "Ok"
                    /\ <<nearest, envs.last.name>> \in BindingsOf(before)
                    /\ \A b \in BindingsOf(before) :
                          ValueAt(envs.heap, b) =
                              IF b = <<nearest, envs.last.name>> THEN envs.last.value
                              ELSE ValueAt(before, b)

\* reached: an assign through an inner environment replaced the value of a
\* binding of the enclosing one, while the inner one binds another name
C16_Witness ==
    /\ envs.at = "ready"
    /\ envs.last.op = "assign"
    /\ envs.last.nearest \notin {0, envs.last.e}
    /\ envs.last.result[1].r = "Ok"
    /\ envs.heap # envs.last.before
    /\ DOMAIN envs.heap[envs.last.e].variables # {}

\* C17: get(name) on an environment returns the value last bound to name, by
\* define or by assign, in the nearest environment of its chain in which
\* name was bound, and the 'Undefined variable' runtime error when name was
\* bound in none of them.
C17_GetReturnsNearestBinding ==
    (envs.at # "idle" /\ envs.last.op = "get") =>
        LET result == envs.last.result[1]
            nearest == envs.last.nearest
        IN  IF nearest = 0
            THEN result.r = "RuntimeError" /\ result.msg = "Undefined variable"
            ELSE result.r = "Ok" /\ result.v = envs.bound[<<nearest, envs.last.name>>]

\* reached: a get through an inner environment that binds another name
\* returned the value of the enclosing one
C17_Witness ==
    /\ envs.at = "ready"
    /\ envs.last.op = "get"
    /\ envs.last.nearest \notin {0, envs.last.e}
    /\ envs.last.result[1].r = "Ok"
    /\ DOMAIN envs.heap[envs.last.e].variables # {}

(***************************************************************************)
(* SpecResolver: Resolver::resolve over programs with class declarations,  *)
(* which the interpreter of this version does not execute.  A program is   *)
(* a sequence of up to MaxStmts statements of the pool below; one action   *)
(* is one iteration of the loop of Resolver::resolve.                      *)
(***************************************************************************)
\* the statements ClassPoolStmt knows
ClassPoolIndices == 1..10

ClassPoolStmt(i, b) ==
    CASE i = 1 -> \* class A { }
           ClassStmt("A", <<>>, <<>>)
      [] i = 2 -> \* class A < A { }
           ClassStmt("A", <<Variable("A", b + 1)>>, <<>>)
      [] i = 3 -> \* class B < A { m() { return super.m; } init() { return 1; } }
           ClassStmt("B", <<Variable("A", b + 1)>>,
               <<FunctionStmt("m", <<>>, <<ReturnStmt(<<Super(b + 2, "m")>>)>>),
                 FunctionStmt("init", <<>>, <<ReturnStmt(<<Lit(1)>>)>>)>>)
      [] i = 4 -> \* { class A < A { } }
           BlockStmt(<<ClassStmt("A", <<Variable("A", b + 1)>>, <<>>)>>)
      [] i = 5 -> \* { class B < A { m(a) { this.a = a; return this.a; } } }
           BlockStmt(<<ClassStmt("B", <<Variable("A", b + 1)>>,
               <<FunctionStmt("m", <<"a">>,
                   <<ExpressionStmt(Set(This(b + 2), "a", Variable("a", b + 3))),
                     ReturnStmt(<<Get(This(b + 4), "a")>>)>>)>>)>>)
      [] i = 6 -> \* fun f() { class A < A { } var a = 1; print a; }
           FunctionStmt("f", <<>>,
               <<ClassStmt("A", <<Variable("A", b + 1)>>, <<>>),
                 VarStmt("a", <<Lit(1)>>),
                 PrintStmt(Variable("a", b + 2))>>)
      [] i = 7 -> \* { { class A < A { m() { } } } var a = a; }
           BlockStmt(<<BlockStmt(<<ClassStmt("A", <<Variable("A", b + 1)>>,
                                       <<FunctionStmt("m", <<>>, <<>>)>>)>>),
                       VarStmt("a", <<Variable("a", b + 2)>>)>>)
      [] i = 8 -> \* print this;
           PrintStmt(This(b + 1))
      [] i = 9 -> \* class A { m() { return super.m; } }
           ClassStmt("A", <<>>,
               <<FunctionStmt("m", <<>>, <<ReturnStmt(<<Super(b + 1, "m")>>)>>)>>)
      [] i = 10 -> \* { var a = 1; while (a) { a = 2; } }
           BlockStmt(<<VarStmt("a", <<Lit(1)>>),
                       WhileStmt(Variable("a", b + 1),
                                 BlockStmt(<<ExpressionStmt(Assign("a", Lit(2), b + 2))>>))>>)

ClassPrograms ==
    UNION {{[j \in 1..n |-> ClassPoolStmt(p[j], 10 * j)] : p \in [1..n -> ClassPoolIndices]}
           : n \in 1..MaxStmts}

InitResolver ==
    /\ program \in ClassPrograms
    /\ pc = [at |-> "resolve", i |-> 1]
    /\ resolver = ResolverNew
    /\ interp = InterpreterNew
    /\ parser = IdleParser
    /\ bin = IdleBin
    /\ scanner = IdleScanner
    /\ inst = IdleInst
    /\ envs = IdleEnvs

\* Resolver::resolve has returned Ok and resolver.success() holds
ResolveSucceed ==
    /\ pc.at = "resolve"
    /\ pc.i > Len(program)
    /\ ~resolver.has_error
    /\ pc' = [pc EXCEPT !.at = "resolved"]
    /\ UNCHANGED <<program, resolver, interp, parser, bin, scanner, inst, envs>>

NextResolver ==
    \/ ResolveStmt
    \/ ResolveReject
    \/ ResolveSucceed

SpecResolver == InitResolver /\ [][NextResolver]_vars

(***************************************************************************)
(* Properties of SpecResolver.                                             *)
(***************************************************************************)
\* every statement but a class declaration that resolves without an Err
\* leaves as many scopes as it found; so does a class declaration at the
\* top level, where there is no scope to lose
ScopesBalancedButInClasses ==
    /\ \A e \in resolver.resolved :
          (e.r = "Ok" /\ e.k \notin {"Class", "Block", "Function"}) => e.after = e.before
    /\ pc.at \in {"resolve", "resolved", "rejected"} => resolver.scopes = <<>>

\* C26 (as claimed): every statement that resolves without an Err, a class
\* declaration whose superclass clause is rejected included, leaves the
\* scope stack with as many scopes as it had before.
C26_ScopesBalanced ==
    \A e \in resolver.resolved : e.r = "Ok" => e.after = e.before

====
